---- MODULE Spec2Model ----
(***************************************************************************)
(* Model of the communication core of the brake control station:           *)
(*   - the SAM reliable-transport engine  (src/modules/up_link.py)         *)
(*   - the hot-standby failover controller (src/modules/hot_standby.py)    *)
(***************************************************************************)
EXTENDS Integers, Sequences, FiniteSets, TLC

VARIABLES sam, scenario, hs, inbox, link, codec, rx

samVars == <<sam, scenario>>
hsVars == <<hs, inbox, link>>
wireVars == <<codec, rx>>
vars == <<sam, scenario, hs, inbox, link, codec, rx>>

-----------------------------------------------------------------------------
(* Bounds of the model *)

\* commands are posted only while fewer than MaxQueue are waiting
MaxQueue == 2
\* new commands are posted only while send_sequence is below MaxSendSeq
MaxSendSeq == 2

(* Program constants *)
MAX_RETRIES == 2
MAX_CONSECUTIVE_CRC_ERRORS == 5

-----------------------------------------------------------------------------
(* SamFrameType, and the frame types that have a handler in handler_map *)
FrameTypes == {"DC2", "DC3", "ACK", "NACK", "SDI", "BCC", "TSQ", "TSD", "ACQ", "ACA", "RSR"}
Handled == {"DC2", "DC3", "ACK", "NACK", "RSR", "ACA", "TSD"}

(* the commands _execute_command knows, and one it does not *)
Commands == {"REQUEST_CENTRAL_CONTROL", "REQUEST_TIME_SYNC", "SEND_RSR", "SEND_SDI"}
UnknownCommand == "NO_SUCH_COMMAND"

(* the five timers of the engine *)
Timers == {"retransmission", "aca_timeout", "initial_tsq", "daily_tsq", "periodic_report"}

(* The bytes _build_frame produces are a function of its four arguments;   *)
(* a frame on the wire is identified by them.                               *)
BuildFrame(frame_type, data_content, send_seq, ack_seq) ==
    [type |-> frame_type, send_seq |-> send_seq, ack_seq |-> ack_seq, data |-> data_content]

(* _in_flight_frame = None *)
None == [frame_bytes |-> BuildFrame("None", <<>>, 0, 0), send_seq |-> 0, type |-> "None"]

(* what the SDI data callback returns when it returns bytes *)
SdiData == <<0, 0>>

(* the state of a freshly constructed SamTcpClient (__init__) *)
SamInit ==
    [handshake_complete |-> FALSE,
     send_sequence |-> 0,
     ack_sequence |-> 0,
     my_master_backup_status |-> 85,
     my_control_mode |-> 170,
     command_queue |-> <<>>,
     in_flight_frame |-> None,
     retry_count |-> 0,
     consecutive_crc_errors |-> 0,
     sdi_data_callback |-> "unset",
     is_waiting_for_aca |-> FALSE,
     timers |-> {},
     sent |-> <<>>,
     events |-> <<>>,
     log |-> <<>>]

(* TcpClient.send_data, sam_event.emit and print: what the handler running *)
(* now has put on the wire, emitted and printed so far                     *)
SendData(s, frame) == [s EXCEPT !.sent = Append(@, frame)]
Emit(s, ev) == [s EXCEPT !.events = Append(@, ev)]
Log(s, line) == [s EXCEPT !.log = Append(@, line)]
StartTimer(s, t) == [s EXCEPT !.timers = @ \cup {t}]
StopTimer(s, t) == [s EXCEPT !.timers = @ \ {t}]

(* the largest sequence number; the argument of % in the advance *)
SequenceModulus == 255

(* an advance that wraps like a byte *)
NextSendSequence_WrapsToZero(n) == (n + 1) % (SequenceModulus + 1)

(* send_sequence = (send_sequence % 255) + 1 if send_sequence != 0 else 1 *)
NextSendSequence(n) == IF n # 0 THEN (n % SequenceModulus) + 1 ELSE 1

(* a reset that forgets to clear the command queue *)
ResetProtocolLayer_KeepsQueue(s) ==
    LET r == [s EXCEPT !.handshake_complete = FALSE,
                       !.send_sequence = 0,
                       !.ack_sequence = 0,
                       !.timers = {},
                       !.in_flight_frame = None,
                       !.is_waiting_for_aca = FALSE,
                       !.retry_count = 0,
                       !.consecutive_crc_errors = 0]
    IN  IF s.handshake_complete THEN Emit(r, [type |-> "connection", status |-> "lost"]) ELSE r

(* _reset_protocol_layer *)
ResetProtocolLayer(s) ==
    LET was_connected == s.handshake_complete
        r == [s EXCEPT !.handshake_complete = FALSE,
                       !.send_sequence = 0,
                       !.ack_sequence = 0,
                       !.timers = {},
                       !.in_flight_frame = None,
                       !.is_waiting_for_aca = FALSE,
                       !.retry_count = 0,
                       !.consecutive_crc_errors = 0,
                       !.command_queue = <<>>]
    IN  IF was_connected THEN Emit(r, [type |-> "connection", status |-> "lost"]) ELSE r

(* a send that does not arm the retransmission timer *)
SendDataFrame_NoTimer(s, frame_type, data_content) ==
    LET frame_to_send == BuildFrame(frame_type, data_content, s.send_sequence, s.ack_sequence)
        s1 == [s EXCEPT !.in_flight_frame =
                            [frame_bytes |-> frame_to_send,
                             send_seq |-> s.send_sequence,
                             type |-> frame_type],
                        !.retry_count = 0]
    IN  SendData(s1, frame_to_send)

(* _send_data_frame *)
SendDataFrame(s, frame_type, data_content) ==
    LET frame_to_send == BuildFrame(frame_type, data_content, s.send_sequence, s.ack_sequence)
        s1 == [s EXCEPT !.in_flight_frame =
                            [frame_bytes |-> frame_to_send,
                             send_seq |-> s.send_sequence,
                             type |-> frame_type],
                        !.retry_count = 0]
    IN  StartTimer(SendData(s1, frame_to_send), "retransmission")

(* _send_nack_frame *)
SendNackFrame(s) == SendData(s, BuildFrame("NACK", <<>>, s.send_sequence, s.ack_sequence))

(* a control request that does not arm the wait for the control-accept *)
HandleAcqRequest_NoWait(s) == SendDataFrame(s, "ACQ", <<>>)

(* _handle_acq_request *)
HandleAcqRequest(s) ==
    StartTimer([SendDataFrame(s, "ACQ", <<>>) EXCEPT !.is_waiting_for_aca = TRUE], "aca_timeout")

(* _handle_tsq_request *)
HandleTsqRequest(s) == SendDataFrame(s, "TSQ", <<>>)

RECURSIVE ProcessCommandQueue(_)

(* an executor that leaves the queue alone when the status data is missing *)
ExecuteCommand_SdiStalls(s, command) ==
    CASE command = "REQUEST_CENTRAL_CONTROL" -> HandleAcqRequest(s)
      [] command = "REQUEST_TIME_SYNC" -> HandleTsqRequest(s)
      [] command = "SEND_RSR" ->
            SendDataFrame(s, "RSR", <<s.my_master_backup_status, s.my_control_mode>>)
      [] command = "SEND_SDI" ->
            IF s.sdi_data_callback # "unset"
            THEN IF s.sdi_data_callback = "bytes"
                 THEN SendDataFrame(s, "SDI", SdiData)
                 ELSE Log(s, [line |-> "sdi_not_bytes"])
            ELSE Log(s, [line |-> "sdi_not_set"])
      [] OTHER -> Log(s, [line |-> "unknown_command", command |-> command])

(* _execute_command *)
ExecuteCommand(s, command) ==
    CASE command = "REQUEST_CENTRAL_CONTROL" -> HandleAcqRequest(s)
      [] command = "REQUEST_TIME_SYNC" -> HandleTsqRequest(s)
      [] command = "SEND_RSR" ->
            SendDataFrame(s, "RSR", <<s.my_master_backup_status, s.my_control_mode>>)
      [] command = "SEND_SDI" ->
            IF s.sdi_data_callback # "unset"
            THEN IF s.sdi_data_callback = "bytes"
                 THEN SendDataFrame(s, "SDI", SdiData)
                 ELSE ProcessCommandQueue(Log(s, [line |-> "sdi_not_bytes"]))
            ELSE ProcessCommandQueue(Log(s, [line |-> "sdi_not_set"]))
      [] OTHER -> Log(s, [line |-> "unknown_command", command |-> command])

(* a queue that pops although a request is in flight *)
ProcessCommandQueue_IgnoresInFlight(s) ==
    IF s.command_queue = <<>>
    THEN s
    ELSE ExecuteCommand(Log([s EXCEPT !.command_queue = Tail(@)],
                            [line |-> "processing", command |-> Head(s.command_queue)]),
                        Head(s.command_queue))

(* _process_command_queue *)
ProcessCommandQueue(s) ==
    IF s.in_flight_frame # None \/ s.command_queue = <<>>
    THEN s
    ELSE ExecuteCommand(Log([s EXCEPT !.command_queue = Tail(@)],
                            [line |-> "processing", command |-> Head(s.command_queue)]),
                        Head(s.command_queue))

(* a queue that puts the new command at the head *)
QueueCommand_Prepends(s, command) ==
    ProcessCommandQueue([Log(s, [line |-> "queue", command |-> command])
                            EXCEPT !.command_queue = <<command>> \o @])

(* _queue_command *)
QueueCommand(s, command) ==
    ProcessCommandQueue([Log(s, [line |-> "queue", command |-> command])
                            EXCEPT !.command_queue = Append(@, command)])


(* a retransmission that gives up one attempt early *)
OnRetransmissionTimeout_OffByOne(s, is_nack) ==
    IF s.in_flight_frame = None THEN s
    ELSE LET s1 == IF ~is_nack THEN [s EXCEPT !.retry_count = @ + 1] ELSE s
         IN  IF s1.retry_count >= MAX_RETRIES
             THEN ProcessCommandQueue(ResetProtocolLayer([s1 EXCEPT !.in_flight_frame = None]))
             ELSE StartTimer(SendData(s1, s1.in_flight_frame.frame_bytes), "retransmission")

(* _on_retransmission_timeout *)
OnRetransmissionTimeout(s, is_nack) ==
    IF s.in_flight_frame = None THEN s
    ELSE LET s1 == IF ~is_nack THEN [s EXCEPT !.retry_count = @ + 1] ELSE s
         IN  IF s1.retry_count > MAX_RETRIES
             THEN ProcessCommandQueue(ResetProtocolLayer([s1 EXCEPT !.in_flight_frame = None]))
             ELSE StartTimer(SendData(s1, s1.in_flight_frame.frame_bytes), "retransmission")

(* an ACA timeout that gives the session up *)
OnAcaTimeout_Resets(s) ==
    IF ~s.is_waiting_for_aca THEN s
    ELSE ProcessCommandQueue(ResetProtocolLayer(
            Emit([s EXCEPT !.is_waiting_for_aca = FALSE, !.in_flight_frame = None],
                 [type |-> "aca", success |-> FALSE, message |-> "timeout"])))

(* _on_aca_timeout *)
OnAcaTimeout(s) ==
    IF ~s.is_waiting_for_aca THEN s
    ELSE ProcessCommandQueue(
            Emit([s EXCEPT !.is_waiting_for_aca = FALSE, !.in_flight_frame = None],
                 [type |-> "aca", success |-> FALSE, message |-> "timeout"]))

(* _send_initial_tsq *)
SendInitialTsq(s) == QueueCommand(s, "REQUEST_TIME_SYNC")

(* _send_periodic_reports *)
SendPeriodicReports(s) ==
    QueueCommand(QueueCommand(Log(s, [line |-> "periodic"]), "SEND_RSR"), "SEND_SDI")

(* _schedule_daily_tsq *)
ScheduleDailyTsq(s) == StartTimer(s, "daily_tsq")

(* _on_daily_tsq_trigger *)
OnDailyTsqTrigger(s) == ScheduleDailyTsq(QueueCommand(s, "REQUEST_TIME_SYNC"))

(* _send_dc3_frame *)
SendDc3Frame(s) ==
    LET s1 == SendData(s, BuildFrame("DC3", <<>>, 0, 0))
        s2 == [s1 EXCEPT !.handshake_complete = TRUE, !.send_sequence = 1, !.ack_sequence = 0]
        s3 == Emit(s2, [type |-> "handshake", status |-> "success"])
    IN  StartTimer(ScheduleDailyTsq(StartTimer(s3, "initial_tsq")), "periodic_report")

(* a handshake that accepts any sequence numbers *)
HandleDc2_AnySequence(s, send_seq, ack_seq) == SendDc3Frame(s)

(* _handle_dc2 *)
HandleDc2(s, send_seq, ack_seq) ==
    IF send_seq = 0 /\ ack_seq = 0 THEN SendDc3Frame(s) ELSE s

(* _handle_dc3 *)
HandleDc3(s) == s

(* an acknowledge handler that does not compare the sequence numbers *)
HandleAck_AnySequence(s, received_ack_seq) ==
    IF s.in_flight_frame = None THEN s
    ELSE IF s.in_flight_frame.type \in {"RSR", "SDI"}
         THEN LET s1 == [StopTimer(s, "retransmission") EXCEPT
                            !.in_flight_frame = None,
                            !.send_sequence = NextSendSequence(@)]
              IN  ProcessCommandQueue(
                      Emit(s1, [type |-> "ack_confirm", send_seq |-> received_ack_seq]))
         ELSE s

(* _handle_ack *)
HandleAck(s, received_ack_seq) ==
    IF s.in_flight_frame = None THEN s
    ELSE IF s.in_flight_frame.type \in {"RSR", "SDI"}
            /\ received_ack_seq = s.in_flight_frame.send_seq
         THEN LET s1 == [StopTimer(s, "retransmission") EXCEPT
                            !.in_flight_frame = None,
                            !.send_sequence = NextSendSequence(@)]
              IN  ProcessCommandQueue(
                      Emit(s1, [type |-> "ack_confirm", send_seq |-> received_ack_seq]))
         ELSE s

(* a negative acknowledge that is counted like a timeout *)
HandleNack_CountsRetry(s) ==
    IF s.in_flight_frame # None
    THEN OnRetransmissionTimeout(StopTimer(s, "retransmission"), FALSE)
    ELSE s

(* a negative acknowledge that gives the session up at the retry limit *)
HandleNack_GivesUpAtLimit(s) ==
    IF s.in_flight_frame # None
    THEN IF s.retry_count >= MAX_RETRIES
         THEN ProcessCommandQueue(ResetProtocolLayer([s EXCEPT !.in_flight_frame = None]))
         ELSE OnRetransmissionTimeout(StopTimer(s, "retransmission"), TRUE)
    ELSE s

(* _handle_nack *)
HandleNack(s) ==
    IF s.in_flight_frame # None
    THEN OnRetransmissionTimeout(StopTimer(s, "retransmission"), TRUE)
    ELSE s

(* _handle_rsr; data_content is payload[7:] *)
HandleRsr(s, data_content) ==
    LET s1 == IF Len(data_content) = 2
              THEN QueueCommand(
                      Emit(s, [type |-> "rsr",
                               sam_master_backup |-> data_content[1],
                               sam_allow_central_control |-> data_content[2]]),
                      "SEND_RSR")
              ELSE s
    IN  ProcessCommandQueue(s1)

(* a control-accept handler that takes any single byte for acceptance *)
HandleAca_AnyCode(s, data_content) ==
    IF ~(s.is_waiting_for_aca /\ s.in_flight_frame # None /\ s.in_flight_frame.type = "ACQ")
    THEN s
    ELSE LET s1 == [StopTimer(StopTimer(s, "aca_timeout"), "retransmission") EXCEPT
                        !.is_waiting_for_aca = FALSE,
                        !.in_flight_frame = None,
                        !.send_sequence = NextSendSequence(@)]
             s2 == IF Len(data_content) = 1
                   THEN Emit([s1 EXCEPT !.my_control_mode = 85],
                             [type |-> "aca", success |-> TRUE, message |-> "accepted"])
                   ELSE Emit(s1, [type |-> "aca", success |-> FALSE, message |-> "format"])
         IN  ProcessCommandQueue(s2)

(* _handle_aca *)
HandleAca(s, data_content) ==
    IF ~(s.is_waiting_for_aca /\ s.in_flight_frame # None /\ s.in_flight_frame.type = "ACQ")
    THEN s
    ELSE LET s1 == [StopTimer(StopTimer(s, "aca_timeout"), "retransmission") EXCEPT
                        !.is_waiting_for_aca = FALSE,
                        !.in_flight_frame = None,
                        !.send_sequence = NextSendSequence(@)]
             s2 == IF Len(data_content) = 1
                   THEN IF data_content[1] = 85
                        THEN Emit([s1 EXCEPT !.my_control_mode = 85],
                                  [type |-> "aca", success |-> TRUE, message |-> "accepted"])
                        ELSE Emit(s1, [type |-> "aca", success |-> FALSE, message |-> "rejected"])
                   ELSE Emit(s1, [type |-> "aca", success |-> FALSE, message |-> "format"])
         IN  ProcessCommandQueue(s2)

(* _bcd_to_int *)
BcdToInt(bcd_byte) == (bcd_byte \div 16) * 10 + (bcd_byte % 16)

(* _handle_tsd *)
HandleTsd(s, data_content) ==
    IF ~(s.in_flight_frame # None /\ s.in_flight_frame.type = "TSQ")
    THEN s
    ELSE LET s1 == [StopTimer(s, "retransmission") EXCEPT
                        !.in_flight_frame = None,
                        !.send_sequence = NextSendSequence(@)]
             s2 == IF Len(data_content) = 7
                   THEN Emit(s1, [type |-> "time_data",
                                  year |-> BcdToInt(data_content[2]) * 100 + BcdToInt(data_content[1]),
                                  rest |-> [i \in 1..5 |-> BcdToInt(data_content[i + 2])]])
                   ELSE s1
         IN  ProcessCommandQueue(s2)

(* _build_frame's is_data_frame: the types that carry a 2-byte length field *)
TypeValue(t) ==
    CASE t = "DC2" -> 18 [] t = "DC3" -> 19 [] t = "ACK" -> 6 [] t = "NACK" -> 21
      [] t = "SDI" -> 133 [] t = "BCC" -> 149 [] t = "TSQ" -> 154 [] t = "TSD" -> 165
      [] t = "ACQ" -> 117 [] t = "ACA" -> 122 [] t = "RSR" -> 170 [] OTHER -> 0
IsDataFrame(t) == TypeValue(t) >= 32 /\ TypeValue(t) # 133

(* payload[7:] of a received frame: the bytes after the length field, or, *)
(* for a type without length field, after the first two data bytes        *)
DataContent(f) ==
    IF IsDataFrame(f.type) THEN f.data ELSE SubSeq(f.data, 3, Len(f.data))

(* handler_map and the unhandled-type event, in _parse_and_dispatch *)
Dispatch(s, f) ==
    CASE f.type = "DC2" -> HandleDc2(s, f.send_seq, f.ack_seq)
      [] f.type = "DC3" -> HandleDc3(s)
      [] f.type = "ACK" -> HandleAck(s, f.ack_seq)
      [] f.type = "NACK" -> HandleNack(s)
      [] f.type = "RSR" -> HandleRsr(s, DataContent(f))
      [] f.type = "ACA" -> HandleAca(s, DataContent(f))
      [] f.type = "TSD" -> HandleTsd(s, DataContent(f))
      [] OTHER -> Emit(s, [type |-> "unhandled", frame_type |-> f.type, data |-> DataContent(f)])

(* the lost-frame test of _parse_and_dispatch *)
FrameLost(ack_sequence, send_seq) ==
    ack_sequence # 0 /\ send_seq # ack_sequence /\ send_seq >= ack_sequence + 2

(* _parse_and_dispatch; a type byte outside SamFrameType raises, and the  *)
(* exception is caught and printed                                         *)
ParseAndDispatch(s, f) ==
    IF f.type \notin FrameTypes THEN Log(s, [line |-> "dispatching_failed"])
    ELSE IF s.handshake_complete /\ f.type \notin {"DC2", "DC3"}
         THEN IF FrameLost(s.ack_sequence, f.send_seq)
              THEN ResetProtocolLayer(
                       Log(s, [line |-> "frame_lost", expected |-> s.ack_sequence + 1,
                               received |-> f.send_seq]))
              ELSE Dispatch([s EXCEPT !.ack_sequence = f.send_seq], f)
         ELSE Dispatch(s, f)

(* a CRC check that resets one failure too late *)
ProcessFrame_OneMore(s, f, crc_ok) ==
    IF ~crc_ok
    THEN LET s1 == [s EXCEPT !.consecutive_crc_errors = @ + 1]
         IN  IF s1.consecutive_crc_errors > MAX_CONSECUTIVE_CRC_ERRORS
             THEN ResetProtocolLayer(s1)
             ELSE SendNackFrame(s1)
    ELSE ParseAndDispatch([s EXCEPT !.consecutive_crc_errors = 0], f)

(* _process_frame; crc_ok is the outcome of received_crc = calculated_crc *)
ProcessFrame(s, f, crc_ok) ==
    IF ~crc_ok
    THEN LET s1 == [s EXCEPT !.consecutive_crc_errors = @ + 1]
         IN  IF s1.consecutive_crc_errors >= MAX_CONSECUTIVE_CRC_ERRORS
             THEN ResetProtocolLayer(s1)
             ELSE SendNackFrame(s1)
    ELSE ParseAndDispatch([s EXCEPT !.consecutive_crc_errors = 0], f)

(* on_connection_status_changed *)
OnConnectionStatusChanged(s, is_connected) ==
    IF is_connected
    THEN Emit(s, [type |-> "connection", status |-> "connected"])
    ELSE ResetProtocolLayer(s)

(* set_sdi_data_callback, with a callable that returns bytes or something else *)
SetSdiDataCallback(s, callback) ==
    Log([s EXCEPT !.sdi_data_callback = callback], [line |-> "callback_set"])


-----------------------------------------------------------------------------
(* The bytes on the wire: _calculate_crc, _build_frame, _deescape_payload, *)
(* the cutting of frames in _on_sam_data_received and the byte-level part  *)
(* of _process_frame.  A byte is a number in 0..255, a byte string a       *)
(* sequence of bytes.                                                      *)

(* poly of _calculate_crc, 0x1021 *)
Poly == 4129

(* a ^ b *)
XorBits[a \in Nat, b \in Nat] ==
    IF a = 0 THEN b
    ELSE IF b = 0 THEN a
    ELSE ((a + b) % 2) + 2 * XorBits[a \div 2, b \div 2]

(* n rounds of the inner loop of _calculate_crc; crc & 0x8000 tests bit 15 *)
CrcShift[crc \in Nat, n \in Nat] ==
    IF n = 0 THEN crc
    ELSE CrcShift[IF (crc \div 32768) % 2 = 1 THEN XorBits[crc * 2, Poly] ELSE crc * 2,
                  n - 1]

(* _calculate_crc; crc[k] is the value of crc after the first k bytes *)
CalculateCrc(data) ==
    LET crc[k \in 0..Len(data)] ==
            IF k = 0 THEN 0
            ELSE CrcShift[XorBits[crc[k - 1], data[k] * 256], 8] % 65536
    IN  crc[Len(data)]

(* the escaping loop of _build_frame *)
Escape[unescaped_payload \in Seq(Nat)] ==
    IF unescaped_payload = <<>> THEN <<>>
    ELSE (CASE Head(unescaped_payload) = 125 -> <<127, 253>>
            [] Head(unescaped_payload) = 126 -> <<127, 254>>
            [] Head(unescaped_payload) = 127 -> <<127, 255>>
            [] OTHER -> <<Head(unescaped_payload)>>)
         \o Escape[Tail(unescaped_payload)]

(* _build_frame, byte for byte *)
BuildFrameBytes(frame_type, data_content, send_seq, ack_seq) ==
    LET crc_data == <<4, 16, send_seq, ack_seq, TypeValue(frame_type)>>
                    \o (IF IsDataFrame(frame_type)
                        THEN <<Len(data_content) % 256, Len(data_content) \div 256>>
                        ELSE <<>>)
                    \o data_content
        crc == CalculateCrc(crc_data)
    IN  <<125>> \o Escape[crc_data \o <<crc % 256, crc \div 256>>] \o <<126>>

(* _deescape_payload; ok is FALSE where the code raises ValueError *)
RECURSIVE DeescapePayload(_)
DeescapePayload(payload_with_escape) ==
    IF payload_with_escape = <<>> THEN [ok |-> TRUE, data |-> <<>>]
    ELSE IF Head(payload_with_escape) = 127
         THEN IF Len(payload_with_escape) < 2 \/ payload_with_escape[2] \notin {253, 254, 255}
              THEN [ok |-> FALSE, data |-> <<>>]
              ELSE LET rest == DeescapePayload(SubSeq(payload_with_escape, 3,
                                                      Len(payload_with_escape)))
                   IN  [ok |-> rest.ok,
                        data |-> IF rest.ok THEN <<payload_with_escape[2] - 128>> \o rest.data
                                 ELSE <<>>]
         ELSE LET rest == DeescapePayload(Tail(payload_with_escape))
              IN  [ok |-> rest.ok,
                   data |-> IF rest.ok THEN <<Head(payload_with_escape)>> \o rest.data
                            ELSE <<>>]

(* SamFrameType(frame_type_val); a value outside the enumeration raises *)
TypeName(frame_type_val) ==
    IF \E t \in FrameTypes : TypeValue(t) = frame_type_val
    THEN CHOOSE t \in FrameTypes : TypeValue(t) = frame_type_val
    ELSE "UNKNOWN"

(* what _process_frame and the first line of _parse_and_dispatch make of a *)
(* frame cut from the stream: the exception of the outer try ("failed"),   *)
(* a CRC mismatch, or the header fields and the rest of the payload; the   *)
(* handlers read payload[7:], which is DataContent of the frame            *)
Decoded(raw_frame_with_escape) ==
    LET unescaped_payload ==
            DeescapePayload(SubSeq(raw_frame_with_escape, 2, Len(raw_frame_with_escape) - 1))
        n == Len(unescaped_payload.data)
        payload == SubSeq(unescaped_payload.data, 1, n - 2)
    IN  IF ~unescaped_payload.ok \/ n < 2
        THEN [outcome |-> "failed", crc_ok |-> FALSE, frame |-> None.frame_bytes]
        ELSE IF unescaped_payload.data[n - 1] + 256 * unescaped_payload.data[n]
                    # CalculateCrc(payload)
        THEN [outcome |-> "crc_error", crc_ok |-> FALSE, frame |-> None.frame_bytes]
        ELSE IF Len(payload) < 5
        THEN [outcome |-> "failed", crc_ok |-> TRUE, frame |-> None.frame_bytes]
        ELSE [outcome |-> "valid", crc_ok |-> TRUE,
              frame |-> BuildFrame(TypeName(payload[5]),
                                   SubSeq(payload,
                                          IF IsDataFrame(TypeName(payload[5])) THEN 8 ELSE 6,
                                          Len(payload)),
                                   payload[3], payload[4])]

(* _process_frame on the bytes of one frame *)
ProcessFrameBytes(s, raw_frame_with_escape) ==
    LET d == Decoded(raw_frame_with_escape)
    IN  CASE d.outcome = "failed" ->
                 Log([s EXCEPT !.consecutive_crc_errors = IF d.crc_ok THEN 0 ELSE @],
                     [line |-> "frame_processing_failed"])
          [] OTHER -> ProcessFrame(s, d.frame, d.crc_ok)

(* bytes.find(b, from): the first index at or after from, 0 when there is  *)
(* none; indices count from 1                                              *)
Find(bytes, b, from) ==
    LET hits == {i \in from..Len(bytes) : bytes[i] = b}
    IN  IF hits = {} THEN 0 ELSE CHOOSE i \in hits : \A j \in hits : i <= j

(* the loop of _on_sam_data_received on the extended buffer: what is left  *)
(* in the buffer, the frames handed to _process_frame and the engine after *)
(* them                                                                    *)
RECURSIVE CutFrames(_, _, _)
CutFrames(s, buffer, frames) ==
    LET start_index == Find(buffer, 125, 1)
        from_start == SubSeq(buffer, start_index, Len(buffer))
        end_index == Find(from_start, 126, 2)
    IN  IF start_index = 0 THEN [sam |-> s, buffer |-> buffer, frames |-> frames]
        ELSE IF end_index = 0 THEN [sam |-> s, buffer |-> from_start, frames |-> frames]
        ELSE CutFrames(ProcessFrameBytes(s, SubSeq(from_start, 1, end_index)),
                       SubSeq(from_start, end_index + 1, Len(from_start)),
                       Append(frames, SubSeq(from_start, 1, end_index)))

(* a receiver that keeps nothing between two calls *)
OnSamDataReceived_Forgets(s, buffer, data) == CutFrames(s, data, <<>>)

(* _on_sam_data_received *)
OnSamDataReceived(s, buffer, data) == CutFrames(s, buffer \o data, <<>>)

(* no frame built, nothing received *)
NoCodec == [frame_type |-> "None", send_seq |-> 0, ack_seq |-> 0, data_content |-> <<>>,
            frame |-> <<>>, mutated |-> FALSE]
(* nothing has arrived: the stream to come, the number of its bytes that  *)
(* have arrived and of the chunks they came in, _buffer, and the frames    *)
(* handed to _process_frame                                                *)
RxInit == [stream |-> <<>>, received |-> 0, chunks |-> 0, buffer |-> <<>>, frames |-> <<>>]
WireIdle == codec = NoCodec /\ rx = RxInit

-----------------------------------------------------------------------------
(* The engine's environment: the frames the SAM side sends, the commands   *)
(* the GUI posts, the socket's signals and the expiry of the timers.  A    *)
(* run stays within one scenario, which says what the environment sends.   *)

Scenarios == {"queue", "reports", "wire", "noise"}

(* send sequence numbers of received frames *)
RecvSeqs == {5, 6, 7}
(* acknowledge numbers of received frames *)
AckSeqs == 0..(MaxSendSeq + 1)
TimeBcd == <<37, 32, 17, 6, 18, 0, 89>>

(* the frames cut from the stream, by scenario *)
QueueFrames ==
    {BuildFrame("DC2", <<>>, 0, 0), BuildFrame("NACK", <<>>, 5, 0),
     BuildFrame("ACA", <<85>>, 5, 0), BuildFrame("ACA", <<170>>, 5, 0),
     BuildFrame("ACA", <<>>, 5, 0),
     BuildFrame("TSD", TimeBcd, 5, 0), BuildFrame("RSR", <<85, 85>>, 5, 0)}
    \cup {BuildFrame("ACK", <<>>, 5, a) : a \in AckSeqs}

WireFrames ==
    {BuildFrame("DC2", <<>>, sq[1], sq[2]) : sq \in {<<0, 0>>, <<0, 1>>, <<1, 0>>}}
    \cup {BuildFrame("ACK", <<>>, s, a) : s \in RecvSeqs, a \in AckSeqs}
    \cup {BuildFrame(t, <<>>, s, 0) : t \in {"DC3", "NACK", "TSQ", "UNKNOWN"}, s \in RecvSeqs}
    \cup {BuildFrame(t, <<1, 2, 3>>, s, 0) : t \in {"BCC", "SDI"}, s \in RecvSeqs}
    \cup {BuildFrame("RSR", d, s, 0) : d \in {<<85, 85>>, <<85>>}, s \in RecvSeqs}
    \cup {BuildFrame("ACA", d, s, 0) : d \in {<<85>>, <<170>>, <<>>}, s \in RecvSeqs}
    \cup {BuildFrame("TSD", d, s, 0) : d \in {TimeBcd, <<>>}, s \in RecvSeqs}

NoiseFrames ==
    {BuildFrame("DC2", <<>>, 0, 0), BuildFrame("DC2", <<>>, 0, 1),
     BuildFrame("NACK", <<>>, 5, 0)}
    \cup {BuildFrame("ACK", <<>>, 5, a) : a \in AckSeqs}

(* a peer that opens the handshake, answers the requests and acknowledges  *)
(* the request in flight, or the sequence number after it                  *)
WrapFrames ==
    {BuildFrame("DC2", <<>>, 0, 0),
     BuildFrame("TSD", TimeBcd, 5, 0),
     BuildFrame("ACK", <<>>, 5, sam.in_flight_frame.send_seq),
     BuildFrame("ACK", <<>>, 5, (sam.in_flight_frame.send_seq + 1) % (SequenceModulus + 1))}

(* a peer whose send sequence is about to wrap, or has just wrapped *)
GapFrames ==
    {BuildFrame("DC2", <<>>, 0, 0)}
    \cup {BuildFrame("RSR", <<85, 85>>, sq, 0) : sq \in {254, 255, 1, 2}}
    \cup {BuildFrame("ACK", <<>>, sq, 1) : sq \in {254, 255, 1, 2}}

InFrames(sc) ==
    CASE sc \in {"queue", "reports"} -> QueueFrames
      [] sc = "gap" -> GapFrames
      [] sc = "wire" -> WireFrames
      [] sc = "wrap" -> WrapFrames
      [] OTHER -> NoiseFrames

PostedCommands(sc) ==
    CASE sc = "queue" -> {"REQUEST_CENTRAL_CONTROL", "REQUEST_TIME_SYNC", "SEND_RSR"}
      [] sc = "reports" -> {UnknownCommand}
      [] sc = "wire" -> {"SEND_RSR"}
      [] sc = "wrap" -> {"SEND_RSR", "REQUEST_TIME_SYNC"}
      [] OTHER -> {"SEND_RSR", "REQUEST_CENTRAL_CONTROL"}

(* a handler starts with nothing sent, emitted or printed *)
Begin(s) == [s EXCEPT !.sent = <<>>, !.events = <<>>, !.log = <<>>]

Event(s2) == sam' = s2 /\ UNCHANGED <<scenario, hsVars, wireVars>>

CanPost(n) ==
    /\ Len(sam.command_queue) + n <= MaxQueue
    /\ sam.send_sequence < MaxSendSeq \/ scenario = "wrap"

(* socket.connected *)
Connected == Event(OnConnectionStatusChanged(Begin(sam), TRUE))

(* socket.disconnected *)
Disconnected == Event(OnConnectionStatusChanged(Begin(sam), FALSE))

(* post_command_signal.emit(command, {}) *)
PostCommand ==
    \E command \in PostedCommands(scenario) :
        /\ CanPost(1)
        /\ Event(QueueCommand(Begin(sam), command))

SetCallback ==
    /\ scenario = "reports"
    /\ \E cb \in {"bytes", "other"} : Event(SetSdiDataCallback(Begin(sam), cb))

(* data_received delivers one delimited frame whose CRC matches *)
FrameReceived ==
    \E f \in InFrames(scenario) :
        /\ (f.type = "RSR" /\ Len(f.data) = 2) => CanPost(1)
        /\ Event(ProcessFrame(Begin(sam), f, TRUE))

(* data_received delivers one delimited frame whose CRC does not match *)
CorruptFrameReceived ==
    /\ scenario = "noise"
    /\ \E f \in InFrames(scenario) : Event(ProcessFrame(Begin(sam), f, FALSE))

(* a single-shot QTimer is inactive when its timeout handler runs *)
RetransmissionTimer ==
    /\ "retransmission" \in sam.timers
    /\ Event(OnRetransmissionTimeout(StopTimer(Begin(sam), "retransmission"), FALSE))

AcaTimer ==
    /\ "aca_timeout" \in sam.timers
    /\ Event(OnAcaTimeout(StopTimer(Begin(sam), "aca_timeout")))

InitialTsqTimer ==
    /\ "initial_tsq" \in sam.timers
    /\ scenario = "reports"
    /\ CanPost(1)
    /\ Event(SendInitialTsq(StopTimer(Begin(sam), "initial_tsq")))

DailyTsqTimer ==
    /\ "daily_tsq" \in sam.timers
    /\ scenario = "reports"
    /\ CanPost(1)
    /\ Event(OnDailyTsqTrigger(StopTimer(Begin(sam), "daily_tsq")))

(* the periodic report timer is not single-shot: it stays active *)
PeriodicReportTimer ==
    /\ "periodic_report" \in sam.timers
    /\ scenario = "reports"
    /\ CanPost(2)
    /\ Event(SendPeriodicReports(Begin(sam)))

-----------------------------------------------------------------------------
(* The hot-standby controller (src/modules/hot_standby.py).  Time advances *)
(* in ticks of half a second, the heartbeat interval; a time stamp is kept *)
(* as the number of ticks since it was taken.                              *)

TicksPerSecond == 2

heartbeat_interval == TicksPerSecond \div 2
timeout_threshold == 2 * TicksPerSecond
dual_master_resolve_delay == 2 * TicksPerSecond
MonitorInterval == 1 * TicksPerSecond
InitialRoleDelay == 3 * TicksPerSecond

(* None, for a time stamp and for a timer that is not running *)
NoTime == -1

(* ages are counted up to the first value no comparison distinguishes *)
HeartbeatAgeCap == timeout_threshold + MonitorInterval + 1
DualMasterAgeCap == dual_master_resolve_delay

Machines == {"A", "B"}
Peer(machine_id) == IF machine_id = "A" THEN "B" ELSE "A"
local_ip(machine_id) == IF machine_id = "A" THEN <<192, 168, 1, 106>> ELSE <<192, 168, 1, 110>>
remote_ip(machine_id) == IF machine_id = "A" THEN <<192, 168, 1, 110>> ELSE <<192, 168, 1, 106>>

(* int(ipaddress.ip_address(a)) < int(ipaddress.ip_address(b)): the four   *)
(* octets are the digits, most significant first, of the 32-bit value      *)
IpLess(a, b) == \E i \in 1..4 : a[i] < b[i] /\ \A j \in 1..(i - 1) : a[j] = b[j]

(* the controller after __init__, which starts the service: the listener   *)
(* blocks in recvfrom and the three timers are armed                       *)
HotStandbyInit ==
    [running |-> TRUE,
     udp_socket |-> "bound",
     local_role |-> "BACKUP",
     local_status |-> "ONLINE",
     remote_role |-> "BACKUP",
     remote_status |-> "OFFLINE",
     last_heartbeat_time |-> NoTime,
     dual_master_check_time |-> NoTime,
     heartbeat_timer |-> heartbeat_interval,
     monitor_timer |-> MonitorInterval,
     initial_role_timer |-> InitialRoleDelay,
     listen_thread |-> "recvfrom",
     monitor_task |-> "idle",
     initial_role_check |-> "idle",
     episode |-> NoTime]

HsInit ==
    /\ hs = [m \in Machines |-> HotStandbyInit]
    /\ inbox = [m \in Machines |-> <<>>]
    /\ link = TRUE

SamStart == sam = SamInit /\ scenario \in Scenarios /\ HsInit /\ WireIdle

SamNext ==
    \/ Connected
    \/ Disconnected
    \/ PostCommand
    \/ SetCallback
    \/ FrameReceived
    \/ CorruptFrameReceived
    \/ RetransmissionTimer
    \/ AcaTimer
    \/ InitialTsqTimer
    \/ DailyTsqTimer
    \/ PeriodicReportTimer

SamSpec == SamStart /\ [][SamNext]_vars

(* A long session: status reports are posted and acknowledged until the    *)
(* send sequence number has gone round.                                    *)
(* the retransmission timer is a running QTimer: once armed it fires unless *)
(* it is stopped                                                            *)
SamLive == SamSpec /\ WF_vars(RetransmissionTimer)

WrapStart == sam = SamInit /\ scenario = "wrap" /\ HsInit /\ WireIdle

WrapNext ==
    \/ Connected
    \/ Disconnected
    \/ PostCommand
    \/ FrameReceived
    \/ RetransmissionTimer

WrapSpec == WrapStart /\ [][WrapNext]_vars

(* The peer's send sequence around its wrap from 255 to 1 *)
GapStart == sam = SamInit /\ scenario = "gap" /\ HsInit /\ WireIdle

GapNext ==
    \/ Connected
    \/ Disconnected
    \/ FrameReceived
    \/ RetransmissionTimer

GapSpec == GapStart /\ [][GapNext]_vars

(* The codec and the cutting of frames, on bytes.  In scenario "codec" a   *)
(* frame is built from drawn arguments, possibly damaged in one byte, and  *)
(* received in one piece; in scenario "stream" a drawn byte stream arrives *)
(* in chunks of any size.                                                  *)

\* data_content of a built frame has at most MaxPayload bytes
MaxPayload == 2
\* a drawn byte stream has at most MaxStream bytes
MaxStream == 6

(* sequence numbers and payload bytes: the three reserved bytes and others *)
CodecSeqs == {1, 125, 126, 127}
CodecAcks == {0, 126}
CodecBytes == {0, 125, 126, 127}
(* the values a damaged byte takes *)
MutantBytes == {0, 126, 127}
(* the bytes of a drawn stream *)
StreamBytes == {1, 125, 126}

BytesUpTo(alphabet, n) == UNION {[1..k -> alphabet] : k \in 0..n}

CodecStart ==
    /\ sam = SamInit /\ scenario = "codec" /\ HsInit
    /\ codec \in [frame_type : FrameTypes, send_seq : CodecSeqs, ack_seq : CodecAcks,
                  data_content : BytesUpTo(CodecBytes, MaxPayload),
                  frame : {<<>>}, mutated : {FALSE}]
    /\ rx = RxInit

StreamStart ==
    /\ sam = SamInit /\ scenario = "stream" /\ HsInit
    /\ codec = NoCodec
    /\ rx \in [stream : BytesUpTo(StreamBytes, MaxStream), buffer : {<<>>},
               frames : {<<>>}, received : {0}, chunks : {0}]

(* _build_frame, and the frame put on the line *)
Encode ==
    /\ scenario = "codec" /\ codec.frame = <<>>
    /\ LET frame == BuildFrameBytes(codec.frame_type, codec.data_content,
                                    codec.send_seq, codec.ack_seq)
       IN  /\ codec' = [codec EXCEPT !.frame = frame]
           /\ rx' = [rx EXCEPT !.stream = frame]
    /\ UNCHANGED <<sam, scenario, hsVars>>

(* the line changes one byte between the delimiters *)
MutateByte ==
    /\ codec.frame # <<>> /\ ~codec.mutated /\ rx.received = 0
    /\ \E i \in 2..(Len(rx.stream) - 1) :
          \E b \in MutantBytes \ {rx.stream[i]} : rx' = [rx EXCEPT !.stream[i] = b]
    /\ codec' = [codec EXCEPT !.mutated = TRUE]
    /\ UNCHANGED <<sam, scenario, hsVars>>

(* socket.readyRead with the next n bytes of the stream *)
DataReceived ==
    \E n \in 1..(Len(rx.stream) - rx.received) :
        /\ scenario = "codec" => n = Len(rx.stream)
        /\ LET r == OnSamDataReceived(Begin(sam), rx.buffer,
                                      SubSeq(rx.stream, rx.received + 1, rx.received + n))
           IN  /\ sam' = r.sam
               /\ rx' = [rx EXCEPT !.received = @ + n, !.chunks = @ + 1, !.buffer = r.buffer,
                                   !.frames = @ \o r.frames]
        /\ UNCHANGED <<scenario, hsVars, codec>>

CodecNext == Encode \/ MutateByte \/ DataReceived

CodecSpec == CodecStart /\ [][CodecNext]_vars

StreamNext == DataReceived

StreamSpec == StreamStart /\ [][StreamNext]_vars

-----------------------------------------------------------------------------
(* The handlers of the hot-standby controller.  The listener thread, the   *)
(* monitor timer and the initial-role timer run in threads of their own    *)
(* and share the role state without a lock: each handler is cut where it   *)
(* has read the shared state and has not yet written what depends on it.   *)

(* the condition check_dual_master tests *)
DualMasterCondition(h) ==
    h.local_role = "MASTER" /\ h.remote_role = "MASTER" /\ h.remote_status = "ONLINE"

(* for how long the dual-primary condition has held without interruption  *)
Observe(old, h) ==
    [h EXCEPT !.episode = IF ~DualMasterCondition(h) THEN NoTime
                          ELSE IF old.episode = NoTime THEN 0 ELSE old.episode]

(* stop_service, called from the thread that owns the controller: the     *)
(* flag is cleared, the heartbeat and monitor timers are cancelled (the    *)
(* initial-role timer is not kept and cannot be), the socket is closed and *)
(* the role state is reset.  A handler that has passed its test of the     *)
(* flag is not waited for.                                                 *)
stop_service(h) ==
    [h EXCEPT !.running = FALSE,
              !.heartbeat_timer = NoTime,
              !.monitor_timer = NoTime,
              !.udp_socket = "None",
              !.local_role = "BACKUP",
              !.local_status = "OFFLINE",
              !.remote_role = "BACKUP",
              !.remote_status = "OFFLINE",
              !.last_heartbeat_time = NoTime,
              !.dual_master_check_time = NoTime]

(* udp_socket.sendto raises when the socket is closed, and the exception   *)
(* is caught                                                               *)
CanSend(h) == h.udp_socket # "None"

(* start_heartbeat_timer *)
start_heartbeat_timer(h) ==
    IF ~h.running THEN h ELSE [h EXCEPT !.heartbeat_timer = heartbeat_interval]

(* start_monitor_timer *)
start_monitor_timer(h) ==
    IF ~h.running THEN h ELSE [h EXCEPT !.monitor_timer = MonitorInterval]

(* the datagram send_heartbeat_task hands to sendto *)
Heartbeat(h, machine_id) ==
    [addr |-> local_ip(machine_id),
     data |-> [type |-> "heartbeat", role |-> h.local_role, ip |-> local_ip(machine_id)]]

(* the datagram send_demotion_notification hands to sendto *)
DemotionNotification(machine_id) ==
    [addr |-> local_ip(machine_id),
     data |-> [type |-> "demotion_notification", message |-> "dual_master_resolved",
               from_ip |-> local_ip(machine_id)]]

(* send_heartbeat_task, after the datagram is sent *)
send_heartbeat_task(h) == start_heartbeat_timer([h EXCEPT !.heartbeat_timer = NoTime])

(* monitor_task up to the test of the peer's status: time_diff and status  *)
(* have been read                                                          *)
HeartbeatTimedOut(h) ==
    /\ h.last_heartbeat_time # NoTime
    /\ h.last_heartbeat_time > timeout_threshold
    /\ h.remote_status # "OFFLINE"

monitor_task_read(h) ==
    IF ~h.running THEN [h EXCEPT !.monitor_timer = NoTime]
    ELSE IF HeartbeatTimedOut(h)
         THEN [h EXCEPT !.monitor_timer = NoTime, !.monitor_task = "mark_offline"]
         ELSE start_monitor_timer(h)

(* monitor_task from the write of the peer's status to its end *)
monitor_task_write(h) ==
    start_monitor_timer([h EXCEPT !.remote_status = "OFFLINE",
                                  !.remote_role = "BACKUP",
                                  !.local_role = IF @ = "BACKUP" THEN "MASTER" ELSE @,
                                  !.monitor_task = "idle"])

(* initial_role_check up to the test of the peer's status *)
initial_role_check_read(h) ==
    IF ~h.running THEN [h EXCEPT !.initial_role_timer = NoTime]
    ELSE [h EXCEPT !.initial_role_timer = NoTime,
                   !.initial_role_check =
                       IF h.remote_status = "OFFLINE" THEN "become_master" ELSE "compare_ip"]

(* an initial-role check in which the larger address wins *)
initial_role_check_write_LargerWins(h, machine_id) ==
    IF h.initial_role_check = "become_master"
       \/ IpLess(remote_ip(machine_id), local_ip(machine_id))
    THEN [h EXCEPT !.local_role = "MASTER", !.remote_role = "BACKUP",
                   !.initial_role_check = "idle"]
    ELSE [h EXCEPT !.local_role = "BACKUP", !.remote_role = "MASTER",
                   !.initial_role_check = "idle"]

(* initial_role_check from the writes of the roles to its end *)
initial_role_check_write(h, machine_id) ==
    IF h.initial_role_check = "become_master"
       \/ IpLess(local_ip(machine_id), remote_ip(machine_id))
    THEN [h EXCEPT !.local_role = "MASTER", !.remote_role = "BACKUP",
                   !.initial_role_check = "idle"]
    ELSE [h EXCEPT !.local_role = "BACKUP", !.remote_role = "MASTER",
                   !.initial_role_check = "idle"]

(* a notification that is also taken as the peer's new role *)
handle_demotion_notification_RecordsRole(h, notification_data) ==
    IF notification_data.message = "dual_master_resolved"
    THEN [h EXCEPT !.dual_master_check_time = NoTime, !.remote_role = "BACKUP"]
    ELSE h

(* handle_demotion_notification *)
handle_demotion_notification(h, notification_data) ==
    IF notification_data.message = "dual_master_resolved"
    THEN [h EXCEPT !.dual_master_check_time = NoTime]
    ELSE h

(* listen_heartbeat: one datagram, up to the call of check_dual_master *)
listen_heartbeat(h, machine_id, datagram) ==
    IF datagram.addr # remote_ip(machine_id) THEN h
    ELSE IF datagram.data.type = "heartbeat"
         THEN [h EXCEPT !.last_heartbeat_time = 0,
                        !.remote_status = "ONLINE",
                        !.remote_role = IF datagram.data.role = "MASTER"
                                        THEN "MASTER" ELSE "BACKUP",
                        !.listen_thread = "check_dual_master"]
         ELSE IF datagram.data.type = "demotion_notification"
              THEN handle_demotion_notification(h, datagram.data)
              ELSE h

(* check_dual_master, up to the call of resolve_dual_master *)
check_dual_master(h) ==
    IF DualMasterCondition(h)
    THEN IF h.dual_master_check_time = NoTime
         THEN [h EXCEPT !.dual_master_check_time = 0, !.listen_thread = "recvfrom"]
         ELSE IF h.dual_master_check_time >= dual_master_resolve_delay
              THEN [h EXCEPT !.listen_thread = "resolve_dual_master"]
              ELSE [h EXCEPT !.listen_thread = "recvfrom"]
    ELSE [h EXCEPT !.dual_master_check_time = NoTime, !.listen_thread = "recvfrom"]

(* resolve_dual_master demotes the local controller *)
Demotes(machine_id) == IpLess(remote_ip(machine_id), local_ip(machine_id))

(* a resolution in which the controller with the smaller address gives way *)
resolve_dual_master_SmallerYields(h, machine_id, random_choice) ==
    LET r == [h EXCEPT !.dual_master_check_time = NoTime, !.listen_thread = "recvfrom"]
    IN  IF IpLess(local_ip(machine_id), remote_ip(machine_id))
        THEN [r EXCEPT !.local_role = "BACKUP", !.remote_role = "MASTER"]
        ELSE r

(* resolve_dual_master; random_choice is the value random.choice returns *)
resolve_dual_master(h, machine_id, random_choice) ==
    LET r == [h EXCEPT !.dual_master_check_time = NoTime, !.listen_thread = "recvfrom"]
    IN  IF IpLess(remote_ip(machine_id), local_ip(machine_id))
        THEN [r EXCEPT !.local_role = "BACKUP", !.remote_role = "MASTER"]
        ELSE IF IpLess(local_ip(machine_id), remote_ip(machine_id))
             THEN r
             ELSE IF random_choice THEN [r EXCEPT !.local_role = "BACKUP"] ELSE r

(* half a second passes *)
Age(time, cap) == IF time = NoTime \/ time >= cap THEN time ELSE time + 1
CountDown(timer) == IF timer > 0 THEN timer - 1 ELSE timer
PassTime(h) ==
    [h EXCEPT !.last_heartbeat_time = Age(@, HeartbeatAgeCap),
              !.dual_master_check_time = Age(@, DualMasterAgeCap),
              !.episode = Age(@, DualMasterAgeCap),
              !.heartbeat_timer = CountDown(@),
              !.monitor_timer = CountDown(@),
              !.initial_role_timer = CountDown(@)]

(* no handler is running or due, and no datagram is under way *)
Quiet(m) ==
    /\ hs[m].heartbeat_timer # 0
    /\ hs[m].monitor_timer # 0
    /\ hs[m].initial_role_timer # 0
    /\ hs[m].listen_thread = "recvfrom"
    /\ hs[m].monitor_task = "idle"
    /\ hs[m].initial_role_check = "idle"
    /\ inbox[m] = <<>>

-----------------------------------------------------------------------------
(* The two controllers and the network between them *)

HsScenarios == {"steady", "partition"}

(* socket.sendto: the datagram reaches the peer's socket unless the link   *)
(* is down or the peer has closed its socket                               *)
SendTo(machine_id, datagrams) ==
    inbox' = IF link /\ CanSend(hs[Peer(machine_id)])
             THEN [inbox EXCEPT ![Peer(machine_id)] = @ \o datagrams]
             ELSE inbox

Step(m, h) == hs' = [hs EXCEPT ![m] = Observe(hs[m], h)] /\ UNCHANGED <<sam, scenario, link, wireVars>>

SendHeartbeatTask(m) ==
    /\ hs[m].heartbeat_timer = 0
    /\ SendTo(m, IF hs[m].running /\ CanSend(hs[m]) THEN <<Heartbeat(hs[m], m)>> ELSE <<>>)
    /\ Step(m, send_heartbeat_task(hs[m]))

MonitorTaskRead(m) ==
    /\ hs[m].monitor_timer = 0
    /\ Step(m, monitor_task_read(hs[m]))
    /\ UNCHANGED inbox

MonitorTaskWrite(m) ==
    /\ hs[m].monitor_task = "mark_offline"
    /\ Step(m, monitor_task_write(hs[m]))
    /\ UNCHANGED inbox

InitialRoleCheckRead(m) ==
    /\ hs[m].initial_role_timer = 0
    /\ Step(m, initial_role_check_read(hs[m]))
    /\ UNCHANGED inbox

InitialRoleCheckWrite(m) ==
    /\ hs[m].initial_role_check # "idle"
    /\ Step(m, initial_role_check_write(hs[m], m))
    /\ UNCHANGED inbox

ListenHeartbeat(m) ==
    /\ hs[m].listen_thread = "recvfrom"
    /\ hs[m].running
    /\ inbox[m] # <<>>
    /\ Step(m, listen_heartbeat(hs[m], m, Head(inbox[m])))
    /\ inbox' = [inbox EXCEPT ![m] = Tail(@)]

CheckDualMaster(m) ==
    /\ hs[m].listen_thread = "check_dual_master"
    /\ Step(m, check_dual_master(hs[m]))
    /\ UNCHANGED inbox

ResolveDualMaster(m) ==
    /\ hs[m].listen_thread = "resolve_dual_master"
    /\ \E random_choice \in BOOLEAN : Step(m, resolve_dual_master(hs[m], m, random_choice))
    /\ SendTo(m, IF Demotes(m) /\ CanSend(hs[m]) THEN <<DemotionNotification(m)>> ELSE <<>>)

Tick ==
    /\ \A m \in Machines : Quiet(m)
    /\ hs' = [m \in Machines |-> PassTime(hs[m])]
    /\ UNCHANGED <<sam, scenario, inbox, link, wireVars>>

(* the network between the two stations fails, and is repaired *)
LinkDown ==
    /\ scenario \in {"partition", "shutdown"}
    /\ link
    /\ link' = FALSE
    /\ UNCHANGED <<sam, scenario, hs, inbox, wireVars>>

LinkUp ==
    /\ ~link
    /\ link' = TRUE
    /\ UNCHANGED <<sam, scenario, hs, inbox, wireVars>>

HsStart == sam = SamInit /\ scenario \in HsScenarios /\ HsInit /\ WireIdle

HsProgress ==
    \/ \E m \in Machines : SendHeartbeatTask(m)
    \/ \E m \in Machines : MonitorTaskRead(m)
    \/ \E m \in Machines : MonitorTaskWrite(m)
    \/ \E m \in Machines : InitialRoleCheckRead(m)
    \/ \E m \in Machines : InitialRoleCheckWrite(m)
    \/ \E m \in Machines : ListenHeartbeat(m)
    \/ \E m \in Machines : CheckDualMaster(m)
    \/ \E m \in Machines : ResolveDualMaster(m)
    \/ Tick

HsNext == HsProgress \/ LinkDown \/ LinkUp

HsSpec == HsStart /\ [][HsNext]_vars

(* The service of a controller is stopped while the other keeps running.   *)
(* Datagrams waiting in the closed socket are discarded.                   *)
StopService(m) ==
    /\ hs[m].running
    /\ Step(m, stop_service(hs[m]))
    /\ inbox' = [inbox EXCEPT ![m] = <<>>]

StopStart == sam = SamInit /\ scenario = "shutdown" /\ HsInit /\ WireIdle

StopNext ==
    \/ HsNext
    \/ \E m \in Machines : StopService(m)

StopSpec == StopStart /\ [][StopNext]_vars

(* One station is switched on while the other is already in service: its   *)
(* controller is constructed, and its service started, at any later time.  *)
(* Every heartbeat is delivered; a service may be stopped for good.        *)

(* the role state __init__ sets before it calls start_service *)
NotStarted ==
    [HotStandbyInit EXCEPT !.running = FALSE, !.udp_socket = "None",
                           !.local_status = "OFFLINE", !.heartbeat_timer = NoTime,
                           !.monitor_timer = NoTime, !.initial_role_timer = NoTime]

(* start_service *)
StartService(m) ==
    /\ hs[m] = NotStarted
    /\ Step(m, HotStandbyInit)
    /\ UNCHANGED inbox

LateStart ==
    /\ sam = SamInit /\ scenario = "late" /\ WireIdle
    /\ \E late \in Machines : hs = [m \in Machines |-> IF m = late THEN NotStarted
                                                       ELSE HotStandbyInit]
    /\ inbox = [m \in Machines |-> <<>>]
    /\ link = TRUE

LateNext ==
    \/ HsProgress
    \/ \E m \in Machines : StartService(m)
    \/ \E m \in Machines : StopService(m)

LateSpec == LateStart /\ [][LateNext]_vars

-----------------------------------------------------------------------------
(* Properties of the transport engine *)

CommandFrameTypes == {"ACQ", "TSQ", "RSR", "SDI"}
CommandFrames(s) == SelectSeq(s.sent, LAMBDA fr : fr.type \in CommandFrameTypes)
IsQueueLine(l) == l.line = "queue"
IsProcessingLine(l) == l.line = "processing"
(* the commands the running handler has enqueued, and those it has popped *)
Enqueued(s) == [i \in 1..Len(SelectSeq(s.log, IsQueueLine)) |-> SelectSeq(s.log, IsQueueLine)[i].command]
Executed(s) == [i \in 1..Len(SelectSeq(s.log, IsProcessingLine)) |-> SelectSeq(s.log, IsProcessingLine)[i].command]
HasEvent(s, type) == \E i \in 1..Len(s.events) : s.events[i].type = type
ConnectionLost == [type |-> "connection", status |-> "lost"]

(* the state after the receipt of frame f with a matching CRC;            *)
(* FrameReceived takes the engine there from every state                   *)
AfterFrame(f) == ProcessFrame(Begin(sam), f, TRUE)

(* the step is the receipt of frame f with a matching CRC *)
Received(f) == sam' = AfterFrame(f)

(* the state a full reset leaves *)
IsReset(s) ==
    /\ ~s.handshake_complete
    /\ s.send_sequence = 0
    /\ s.ack_sequence = 0
    /\ s.in_flight_frame = None
    /\ ~s.is_waiting_for_aca
    /\ s.command_queue = <<>>
    /\ s.retry_count = 0
    /\ s.consecutive_crc_errors = 0
    /\ s.timers = {}

(* the engine's state without the outputs of the last handler *)
Core(s) == [s EXCEPT !.sent = <<>>, !.events = <<>>, !.log = <<>>]

EnqueueStep == PostCommand \/ InitialTsqTimer \/ DailyTsqTimer \/ PeriodicReportTimer

(* C1: a handler puts at most one command frame on the wire; while a       *)
(* request is in flight, enqueueing commands transmits nothing, pops       *)
(* nothing and leaves the in-flight request unchanged; and a command is    *)
(* popped in a step that began with a request in flight only if that step  *)
(* first cleared the request (send_sequence advanced, or a control-accept  *)
(* result was emitted).                                                    *)
C1_AtMostOneInFlight ==
    [][/\ Len(CommandFrames(sam')) <= 1
       /\ (sam.in_flight_frame # None /\ EnqueueStep) =>
              /\ sam'.sent = <<>>
              /\ Executed(sam') = <<>>
              /\ sam'.in_flight_frame = sam.in_flight_frame
              /\ sam'.command_queue = sam.command_queue \o Enqueued(sam')
       /\ (sam.in_flight_frame # None /\ Executed(sam') # <<>>) =>
              \/ sam'.send_sequence # sam.send_sequence
              \/ HasEvent(sam', "aca")]_samVars

(* C1 witness: a command was just enqueued behind another while a request  *)
(* is in flight, and nothing was sent                                      *)
C1_Witness ==
    /\ sam.in_flight_frame # None
    /\ Len(sam.command_queue) = 2
    /\ Len(Enqueued(sam)) = 1
    /\ sam.sent = <<>>


(* C2: a retransmission timeout of an in-flight request resends the stored *)
(* frame bytes, and only them, while fewer than MAX_RETRIES timeouts have  *)
(* occurred, counting the timeout and keeping the request; the timeout     *)
(* after MAX_RETRIES resends performs a full reset, with one connection    *)
(* lost event if the handshake was complete, and sends nothing; the retry  *)
(* counter stays in 0..MAX_RETRIES, is 0 when a request is first sent and  *)
(* changes on no other step while the request stays in flight.             *)
C2_RetryBound ==
    [][/\ sam'.retry_count \in 0..MAX_RETRIES
       /\ (Executed(sam') # <<>> /\ sam'.in_flight_frame # None) => sam'.retry_count = 0
       /\ (~RetransmissionTimer /\ Executed(sam') = <<>> /\ sam'.in_flight_frame # None) =>
              /\ sam'.retry_count = sam.retry_count
              /\ sam'.in_flight_frame = sam.in_flight_frame
       /\ (RetransmissionTimer /\ sam.in_flight_frame # None) =>
              IF sam.retry_count < MAX_RETRIES
              THEN /\ sam'.sent = <<sam.in_flight_frame.frame_bytes>>
                   /\ sam'.retry_count = sam.retry_count + 1
                   /\ sam'.in_flight_frame = sam.in_flight_frame
                   /\ "retransmission" \in sam'.timers
                   /\ sam'.events = <<>>
              ELSE /\ sam'.sent = <<>>
                   /\ IsReset(sam')
                   /\ sam'.events = IF sam.handshake_complete THEN <<ConnectionLost>> ELSE <<>>
      ]_samVars

(* C2 witness: the second resend of a request whose stored bytes differ    *)
(* from what encoding it again would give                                  *)
C2_Witness ==
    /\ sam.in_flight_frame # None
    /\ sam.retry_count = MAX_RETRIES
    /\ sam.sent = <<sam.in_flight_frame.frame_bytes>>
    /\ sam.in_flight_frame.frame_bytes.ack_seq # sam.ack_sequence

(* C3, as claimed: after the handshake every received non-handshake frame  *)
(* with a valid CRC either resets the engine (ack_sequence # 0 and         *)
(* send_seq >= ack_sequence + 2) or sets ack_sequence to its send_seq      *)
(* without a reset.                                                        *)
C3_SequenceGap ==
    [][\A f \in InFrames(scenario) :
          (/\ sam.handshake_complete
           /\ f.type \notin {"DC2", "DC3"}
           /\ sam' = ProcessFrame(Begin(sam), f, TRUE)) =>
              IF sam.ack_sequence # 0 /\ f.send_seq >= sam.ack_sequence + 2
              THEN IsReset(sam') /\ sam'.events = <<ConnectionLost>> /\ sam'.sent = <<>>
              ELSE sam'.handshake_complete /\ sam'.ack_sequence = f.send_seq
      ]_samVars

(* C4: in every state, delivering an acknowledge frame a second time right *)
(* after its first delivery changes nothing, emits nothing and sends       *)
(* nothing.                                                                *)
C4_AckIdempotent ==
    \A f \in InFrames(scenario) :
        f.type = "ACK" =>
            LET s1 == ProcessFrame(Begin(sam), f, TRUE)
                s2 == ProcessFrame(Begin(s1), f, TRUE)
            IN  /\ Core(s2) = Core(s1)
                /\ s2.events = <<>>
                /\ s2.sent = <<>>

(* C4 witness: an acknowledge frame was just accepted and the next queued  *)
(* command, which itself awaits an acknowledge, was dispatched; the same   *)
(* acknowledge frame can be delivered again                                *)
C4_Witness ==
    /\ HasEvent(sam, "ack_confirm")
    /\ sam.in_flight_frame # None
    /\ sam.in_flight_frame.type \in {"RSR", "SDI"}
    /\ sam.sent = <<sam.in_flight_frame.frame_bytes>>
    /\ BuildFrame("ACK", <<>>, sam.ack_sequence, sam.events[1].send_seq) \in InFrames(scenario)

(* C9: in every step that is not a reset, the commands executed in the     *)
(* step followed by the commands still queued are the commands that were   *)
(* queued followed by the commands enqueued in the step: commands leave    *)
(* the queue in the order they entered, none twice and none skipped.       *)
C9_Fifo ==
    [][\/ IsReset(sam') /\ Executed(sam') = <<>>
       \/ Executed(sam') \o sam'.command_queue = sam.command_queue \o Enqueued(sam')
      ]_samVars

(* C9 witness: a command was popped from a queue that held another behind it *)
C9_Witness ==
    /\ Len(Executed(sam)) = 1
    /\ Enqueued(sam) = <<>>
    /\ Len(sam.command_queue) >= 1
    /\ sam.in_flight_frame # None

(* the steps that reset the protocol layer: a disconnect, the CRC error    *)
(* that reaches the limit, the timeout after the last retry, and a frame   *)
(* that reveals a lost one                                                 *)
ResetStep ==
    \/ Disconnected
    \/ /\ sam.consecutive_crc_errors = MAX_CONSECUTIVE_CRC_ERRORS - 1
       /\ CorruptFrameReceived
    \/ /\ sam.in_flight_frame # None
       /\ sam.retry_count = MAX_RETRIES
       /\ RetransmissionTimer
    \/ /\ sam.handshake_complete
       /\ sam.ack_sequence # 0
       /\ \E f \in InFrames(scenario) :
             /\ f.type \in FrameTypes \ {"DC2", "DC3"}
             /\ FrameLost(sam.ack_sequence, f.send_seq)
             /\ sam' = ProcessFrame(Begin(sam), f, TRUE)

(* C10: every reset of the protocol layer leaves the handshake incomplete, *)
(* both sequence numbers 0, no request in flight, the queue empty, both    *)
(* counters 0 and all five timers stopped, and emits one connection lost   *)
(* event if the handshake was complete before and no event otherwise.      *)
C10_ResetState ==
    [][ResetStep =>
          /\ IsReset(sam')
          /\ sam'.timers \cap Timers = {}
          /\ sam'.events = IF sam.handshake_complete THEN <<ConnectionLost>> ELSE <<>>
      ]_samVars

(* C10 witness: a lost frame has just reset an active session *)
C10_Witness ==
    /\ IsReset(sam)
    /\ sam.events = <<ConnectionLost>>
    /\ \E i \in 1..Len(sam.log) : sam.log[i].line = "frame_lost"


Dc2Open == BuildFrame("DC2", <<>>, 0, 0)
Dc3Confirm == BuildFrame("DC3", <<>>, 0, 0)
HandshakeTimers == {"initial_tsq", "daily_tsq", "periodic_report"}

(* what the receipt of a DC2 frame with send_seq = 0 and ack_seq = 0 does *)
HandshakeEffect ==
    Received(Dc2Open) =>
        /\ sam'.sent = <<Dc3Confirm>>
        /\ sam'.handshake_complete
        /\ sam'.send_sequence = 1
        /\ sam'.ack_sequence = 0
        /\ HandshakeTimers \subseteq sam'.timers

(* C11: handshake_complete becomes true only on receipt of a DC2 frame     *)
(* with send_seq = 0 and ack_seq = 0, which sends exactly one DC3 frame,   *)
(* sets handshake_complete, send_sequence = 1, ack_sequence = 0 and starts *)
(* the initial-TSQ, daily-TSQ and periodic-report timers; a DC2 frame with *)
(* other sequence values sends nothing, emits nothing and changes no state *)
(* (the CRC-error counter aside, which every frame with a matching CRC     *)
(* sets to 0 before it is dispatched, see C12).                            *)
C11_Handshake ==
    /\ [](\A f \in InFrames(scenario) :
             (f.type = "DC2" /\ f # Dc2Open) =>
                 /\ AfterFrame(f).sent = <<>>
                 /\ AfterFrame(f).events = <<>>
                 /\ Core(AfterFrame(f)) = [Core(sam) EXCEPT !.consecutive_crc_errors = 0])
    /\ [][/\ (~sam.handshake_complete /\ sam'.handshake_complete) => Received(Dc2Open)
          /\ HandshakeEffect
         ]_samVars

(* C11 witness: the handshake has just completed while a request posted    *)
(* before it is still in flight                                            *)
C11_Witness ==
    /\ sam.handshake_complete
    /\ sam.sent = <<Dc3Confirm>>
    /\ sam.send_sequence = 1
    /\ HandshakeTimers \subseteq sam.timers
    /\ sam.in_flight_frame # None

(* C12: fewer than MAX_CONSECUTIVE_CRC_ERRORS - 1 failures before it, a    *)
(* frame with a CRC mismatch is answered with exactly one NACK frame and   *)
(* only counted; the fifth failure in a row resets the protocol layer and  *)
(* sends no NACK; a frame whose CRC matches sets the counter to 0; and the *)
(* counter is in 0..4 in every state.                                      *)
C12_CrcErrors ==
    /\ [](sam.consecutive_crc_errors \in 0..(MAX_CONSECUTIVE_CRC_ERRORS - 1))
    /\ [][/\ (sam.consecutive_crc_errors < MAX_CONSECUTIVE_CRC_ERRORS - 1
                  /\ CorruptFrameReceived) =>
                 /\ sam'.sent = <<BuildFrame("NACK", <<>>, sam.send_sequence, sam.ack_sequence)>>
                 /\ sam'.events = <<>>
                 /\ Core(sam') = [Core(sam) EXCEPT !.consecutive_crc_errors = @ + 1]
          /\ (sam.consecutive_crc_errors = MAX_CONSECUTIVE_CRC_ERRORS - 1
                  /\ CorruptFrameReceived) =>
                 /\ sam'.sent = <<>>
                 /\ IsReset(sam')
                 /\ sam.handshake_complete => sam'.events = <<ConnectionLost>>
          /\ sam'.consecutive_crc_errors # 0 =>
                 \A f \in InFrames(scenario) : ~Received(f)
         ]_samVars

(* C12 witness: the fourth failure in a row has just been answered with a  *)
(* NACK frame, in an established session with a request in flight          *)
C12_Witness ==
    /\ sam.consecutive_crc_errors = MAX_CONSECUTIVE_CRC_ERRORS - 1
    /\ sam.sent = <<BuildFrame("NACK", <<>>, sam.send_sequence, sam.ack_sequence)>>
    /\ sam.handshake_complete
    /\ sam.in_flight_frame # None

(* frame f passes the lost-frame test and reaches the handler of its type *)
Dispatched(f) ==
    /\ f.type \in FrameTypes
    /\ ~(sam.handshake_complete /\ f.type \notin {"DC2", "DC3"}
            /\ FrameLost(sam.ack_sequence, f.send_seq))

(* the request in flight is one that frame f acknowledges *)
Acknowledges(f) ==
    /\ f.type = "ACK"
    /\ sam.in_flight_frame # None
    /\ sam.in_flight_frame.type \in {"SDI", "RSR"}
    /\ f.ack_seq = sam.in_flight_frame.send_seq

(* from state s to state r the request in flight is cleared and the next  *)
(* queued command, if there is one, is popped and executed; a request in   *)
(* flight in r is one sent on the way                                      *)
NextCommandPopped(s, r) ==
    /\ s.command_queue # <<>> =>
          /\ Executed(r) # <<>>
          /\ Executed(r)[1] = Head(s.command_queue)
    /\ s.command_queue = <<>> => CommandFrames(r) = <<>> /\ r.in_flight_frame = None
    /\ r.in_flight_frame # None =>
          /\ CommandFrames(r) = <<r.in_flight_frame.frame_bytes>>
          /\ r.in_flight_frame.send_seq = r.send_sequence
          /\ "retransmission" \in r.timers

(* the same, with the retransmission timer stopped when nothing is sent *)
NextCommandDispatched(s, r) ==
    /\ NextCommandPopped(s, r)
    /\ r.in_flight_frame = None => "retransmission" \notin r.timers

(* C13: an ACK frame that reaches its handler clears the request in        *)
(* flight, advances send_sequence, emits one 'ack_confirm' and dispatches  *)
(* the next queued command exactly when a request is in flight, its type   *)
(* is SDI or RSR and the frame's ack sequence number is the request's      *)
(* send_seq; every other ACK frame leaves the request in flight,           *)
(* send_sequence, the retry counter, the timers and the queue unchanged,   *)
(* emits nothing and sends nothing; and 'ack_confirm' is emitted by no     *)
(* other step.                                                             *)
C13_AckEffect ==
    /\ [](\A f \in InFrames(scenario) :
             (f.type = "ACK" /\ Dispatched(f)) =>
                 IF Acknowledges(f)
                 THEN /\ AfterFrame(f).events = <<[type |-> "ack_confirm", send_seq |-> f.ack_seq]>>
                      /\ AfterFrame(f).send_sequence = NextSendSequence(sam.send_sequence)
                      /\ NextCommandDispatched(sam, AfterFrame(f))
                 ELSE /\ AfterFrame(f).in_flight_frame = sam.in_flight_frame
                      /\ AfterFrame(f).send_sequence = sam.send_sequence
                      /\ AfterFrame(f).retry_count = sam.retry_count
                      /\ AfterFrame(f).timers = sam.timers
                      /\ AfterFrame(f).command_queue = sam.command_queue
                      /\ AfterFrame(f).events = <<>>
                      /\ AfterFrame(f).sent = <<>>)
    /\ [][HasEvent(sam', "ack_confirm") =>
             \E f \in InFrames(scenario) :
                 Acknowledges(f) /\ Dispatched(f) /\ Received(f)
         ]_samVars

(* C13 witness: an ACK frame has just cleared a request, and the command   *)
(* queued behind it went out with the advanced sequence number             *)
C13_Witness ==
    /\ HasEvent(sam, "ack_confirm")
    /\ sam.in_flight_frame # None
    /\ sam.in_flight_frame.send_seq = 2
    /\ sam.send_sequence = 2
    /\ sam.sent = <<sam.in_flight_frame.frame_bytes>>

(* C14: while handshake_complete is true send_sequence is in 1..255; a     *)
(* step that changes send_sequence takes s in 1..254 to s + 1 and 255 to   *)
(* 1, or is the first advance from 0, or is the handshake (which sets 1),  *)
(* or is a reset; only a reset brings send_sequence back to 0.             *)
C14_SendSequence ==
    /\ [](sam.handshake_complete => sam.send_sequence \in 1..SequenceModulus)
    /\ [](sam.send_sequence \in 0..SequenceModulus)
    /\ [][sam'.send_sequence # sam.send_sequence =>
             \/ sam.send_sequence \in 1..(SequenceModulus - 1)
                    /\ sam'.send_sequence = sam.send_sequence + 1
             \/ sam.send_sequence = SequenceModulus /\ sam'.send_sequence = 1
             \/ sam.send_sequence = 0 /\ sam'.send_sequence = 1
             \/ sam'.send_sequence = 1 /\ Received(Dc2Open)
             \/ sam'.send_sequence = 0 /\ IsReset(sam')
         ]_samVars

(* C14 witness: the request sent with sequence number 255 has just been    *)
(* acknowledged and send_sequence is 1 again                               *)
C14_Witness ==
    /\ sam.handshake_complete
    /\ sam.send_sequence = 1
    /\ sam.events = <<[type |-> "ack_confirm", send_seq |-> SequenceModulus]>>

(* C15: a NACK frame that reaches its handler while a request is in flight *)
(* sends the stored frame bytes once more and nothing else, leaves the     *)
(* retransmission timer running, the request in flight and the retry       *)
(* counter as they were, and does not increment consecutive_crc_errors;    *)
(* with no request in flight it sends nothing and changes neither the      *)
(* in-flight state, the timers nor the queue.                              *)
C15_NackEffect ==
    \A f \in InFrames(scenario) :
        (f.type = "NACK" /\ Dispatched(f)) =>
            LET r == AfterFrame(f)
            IN  /\ r.in_flight_frame = sam.in_flight_frame
                /\ r.command_queue = sam.command_queue
                /\ r.retry_count = sam.retry_count
                /\ r.consecutive_crc_errors <= sam.consecutive_crc_errors
                /\ r.events = <<>>
                /\ IF sam.in_flight_frame # None
                   THEN /\ r.sent = <<sam.in_flight_frame.frame_bytes>>
                        /\ r.timers = sam.timers \cup {"retransmission"}
                   ELSE /\ r.sent = <<>>
                        /\ r.timers = sam.timers

(* C15 witness: a NACK frame has just made the engine send the request in  *)
(* flight again: the bytes went out without a retry being counted          *)
C15_Witness ==
    /\ sam.in_flight_frame # None
    /\ sam.sent = <<sam.in_flight_frame.frame_bytes>>
    /\ sam.retry_count = 0
    /\ sam.log = <<>>
    /\ sam.events = <<>>
    /\ sam.handshake_complete

(* an ACQ request is in flight and its answer is awaited *)
AcqAwaited ==
    /\ sam.is_waiting_for_aca
    /\ sam.in_flight_frame # None
    /\ sam.in_flight_frame.type = "ACQ"

(* C16: an ACA frame that reaches its handler while an ACQ request is in   *)
(* flight and awaited clears the request and the wait, advances            *)
(* send_sequence once, emits exactly one 'aca' event whose success is true *)
(* exactly when the payload is the single byte 0x55 (only then does        *)
(* my_control_mode become 0x55), and dispatches the next queued command;   *)
(* the ACA wait timer and the retransmission timer run afterwards only for *)
(* a request sent in the same step.  Any other ACA frame clears nothing,   *)
(* emits nothing, sends nothing and does not advance send_sequence.        *)
C16_AcaEffect ==
    \A f \in InFrames(scenario) :
        (f.type = "ACA" /\ Dispatched(f)) =>
            LET r == AfterFrame(f)
            IN  IF AcqAwaited
                THEN /\ Len(r.events) = 1
                     /\ r.events[1].type = "aca"
                     /\ r.events[1].success = (f.data = <<85>>)
                     /\ r.my_control_mode = IF f.data = <<85>> THEN 85 ELSE sam.my_control_mode
                     /\ r.send_sequence = NextSendSequence(sam.send_sequence)
                     /\ NextCommandDispatched(sam, r)
                     /\ ("aca_timeout" \in r.timers \/ r.is_waiting_for_aca) =>
                            /\ r.in_flight_frame # None
                            /\ r.in_flight_frame.type = "ACQ"
                            /\ r.sent = <<r.in_flight_frame.frame_bytes>>
                ELSE /\ r.in_flight_frame = sam.in_flight_frame
                     /\ r.is_waiting_for_aca = sam.is_waiting_for_aca
                     /\ r.send_sequence = sam.send_sequence
                     /\ r.my_control_mode = sam.my_control_mode
                     /\ r.timers = sam.timers
                     /\ r.command_queue = sam.command_queue
                     /\ r.events = <<>>
                     /\ r.sent = <<>>

(* C16 witness: the request for central control has just been accepted and *)
(* the command queued behind it has gone out                               *)
C16_Witness ==
    /\ sam.events = <<[type |-> "aca", success |-> TRUE, message |-> "accepted"]>>
    /\ sam.my_control_mode = 85
    /\ sam.in_flight_frame # None
    /\ sam.sent = <<sam.in_flight_frame.frame_bytes>>
    /\ sam.handshake_complete

(* the state after the expiry of the ACA wait timer *)
AfterAcaTimeout == OnAcaTimeout(StopTimer(Begin(sam), "aca_timeout"))

(* from state s to state r the session is kept: handshake_complete is as   *)
(* it was and every queued command is either still queued, in order, or    *)
(* was executed on the way                                                 *)
SessionKept(s, r) ==
    /\ r.handshake_complete = s.handshake_complete
    /\ Executed(r) \o r.command_queue = s.command_queue

(* C17: when the ACA wait timer expires while an ACQ request is in flight, *)
(* the request is cleared, exactly one 'aca' event with success = false is *)
(* emitted and the next queued command is dispatched; the timeout, like an *)
(* ACA frame that rejects the request, leaves handshake_complete as it was *)
(* and keeps the queued commands that were not dispatched.                 *)
C17_AcaTimeout ==
    /\ ("aca_timeout" \in sam.timers /\ sam.in_flight_frame.type = "ACQ") =>
           LET r == AfterAcaTimeout
           IN  /\ r.events = <<[type |-> "aca", success |-> FALSE, message |-> "timeout"]>>
               /\ ~r.is_waiting_for_aca \/ r.sent = <<r.in_flight_frame.frame_bytes>>
               /\ NextCommandPopped(sam, r)
               /\ SessionKept(sam, r)
    /\ \A f \in InFrames(scenario) :
           (f.type = "ACA" /\ f.data # <<85>> /\ Dispatched(f) /\ AcqAwaited) =>
               LET r == AfterFrame(f)
               IN  /\ r.events[1].success = FALSE
                   /\ SessionKept(sam, r)

(* C17 witness: the wait for the control-accept frame has just timed out   *)
(* in an established session; the next command went out and another is     *)
(* still queued                                                            *)
C17_Witness ==
    /\ sam.events = <<[type |-> "aca", success |-> FALSE, message |-> "timeout"]>>
    /\ sam.handshake_complete
    /\ sam.in_flight_frame # None
    /\ sam.sent = <<sam.in_flight_frame.frame_bytes>>
    /\ sam.command_queue # <<>>

(* C18: while handshake_complete is false, a frame with a matching CRC     *)
(* that is neither DC2 nor DC3 changes neither the request in flight,      *)
(* send_sequence, ack_sequence nor the queue, emits no event and sends     *)
(* nothing.                                                                *)
C18_IgnoredBeforeHandshake ==
    \A f \in InFrames(scenario) :
        (~sam.handshake_complete /\ f.type \notin {"DC2", "DC3"}) =>
            LET r == AfterFrame(f)
            IN  /\ r.in_flight_frame = sam.in_flight_frame
                /\ r.send_sequence = sam.send_sequence
                /\ r.ack_sequence = sam.ack_sequence
                /\ r.command_queue = sam.command_queue
                /\ r.events = <<>>
                /\ r.sent = <<>>

(* C18 witness: without a handshake, an ACK frame has cleared a request    *)
(* and advanced send_sequence                                              *)
C18_Witness ==
    /\ ~sam.handshake_complete
    /\ sam.events = <<[type |-> "ack_confirm", send_seq |-> 0]>>
    /\ sam.send_sequence = 1
    /\ sam.in_flight_frame = None

(* a built frame has arrived whole *)
Arrived == codec.frame # <<>> /\ rx.received = Len(rx.stream)

(* C22: a frame built by _build_frame from any type, sequence numbers and  *)
(* payload, and received undamaged, is cut from the stream as it was sent, *)
(* passes the CRC check and is parsed to the type, the send and the        *)
(* acknowledge number and the payload it was built from.                   *)
C22_RoundTrip ==
    (Arrived /\ ~codec.mutated) =>
        /\ rx.frames = <<codec.frame>>
        /\ LET d == Decoded(codec.frame)
           IN  /\ d.outcome = "valid"
               /\ d.frame.type = codec.frame_type
               /\ d.frame.send_seq = codec.send_seq
               /\ d.frame.ack_seq = codec.ack_seq
               /\ DataContent(d.frame) = codec.data_content

(* a status report whose sequence number and payload are reserved bytes    *)
(* has made the round trip                                                 *)
C22_Witness ==
    /\ Arrived /\ ~codec.mutated
    /\ codec.frame_type = "RSR" /\ codec.send_seq = 125 /\ codec.data_content = <<126, 127>>
    /\ DataContent(Decoded(codec.frame).frame) = <<126, 127>>
    /\ \E i \in 1..Len(sam.events) : sam.events[i].type = "rsr"

(* C23: a frame in which one byte between the delimiters was changed on   *)
(* the line is answered as a CRC error: the error counter is incremented  *)
(* and a NACK is sent (the counter is below its limit here), the frame is *)
(* not dispatched and is dropped on no other path.                        *)
C23_DamageIsCrcError ==
    (Arrived /\ codec.mutated) =>
        /\ rx.frames = <<rx.stream>>
        /\ Decoded(rx.stream).outcome = "crc_error"
        /\ sam.consecutive_crc_errors = 1
        /\ \E i \in 1..Len(sam.sent) : sam.sent[i].type = "NACK"
        /\ sam.log = <<>>

(* a damaged byte that leaves the escaping intact is answered with a NACK *)
C23_Witness ==
    /\ Arrived /\ codec.mutated
    /\ Decoded(rx.stream).outcome = "crc_error"
    /\ sam.consecutive_crc_errors = 1
    /\ \E i \in 1..Len(sam.sent) : sam.sent[i].type = "NACK"

(* C26: a handler puts a command frame (ACQ, TSQ, RSR, SDI) on the wire    *)
(* only while the handshake is complete: a command posted before the       *)
(* handshake, or after a reset and before the next handshake, is not sent. *)
C26_CommandsOnlyAfterHandshake ==
    (\E i \in 1..Len(sam.sent) : sam.sent[i].type \in CommandFrameTypes) =>
        sam.handshake_complete

(* a command posted after the handshake is sent *)
C26_Witness ==
    /\ sam.handshake_complete
    /\ sam.in_flight_frame.type = "RSR"
    /\ \E i \in 1..Len(sam.sent) : sam.sent[i].type = "RSR"
    /\ \E i \in 1..Len(sam.log) : sam.log[i].line = "queue"

(* C28: the frames cut from the inbound bytes, and what stays in the       *)
(* buffer, do not depend on the chunks the bytes arrive in: they are what  *)
(* one call with all the bytes received so far gives.  Every frame runs    *)
(* from a 0x7D to the first 0x7E after it, no byte stays in the buffer in  *)
(* front of a 0x7D, and the bytes from a 0x7D that no 0x7E follows stay in *)
(* the buffer as they arrived.                                             *)
C28_ChunkingIndependent ==
    LET whole == OnSamDataReceived(SamInit, <<>>, SubSeq(rx.stream, 1, rx.received))
    IN  /\ rx.frames = whole.frames
        /\ rx.buffer = whole.buffer
        /\ \A i \in 1..Len(rx.frames) :
               /\ rx.frames[i][1] = 125
               /\ Find(rx.frames[i], 126, 2) = Len(rx.frames[i])
        /\ Find(rx.buffer, 125, 1) \in {0, 1}
        /\ Find(rx.buffer, 125, 1) = 1 => Find(rx.buffer, 126, 2) = 0
        /\ Find(rx.buffer, 125, 1) = 1 =>
               \E k \in 1..rx.received : rx.buffer = SubSeq(rx.stream, k, rx.received)

(* noise, a frame and the first two bytes of a second frame have arrived   *)
(* byte by byte: the noise is gone, the frame was cut and the open frame   *)
(* is kept                                                                 *)
C28_Witness ==
    /\ rx.stream = <<1, 125, 126, 125, 1, 126>>
    /\ rx.received = 5 /\ rx.chunks = 5
    /\ rx.frames = <<<<125, 126>>>>
    /\ rx.buffer = <<125, 1>>

(* C30: a frame with a matching CRC whose type byte is none of DC2, DC3,   *)
(* ACK, NACK, RSR, ACA and TSD, and which passes the lost-frame test,      *)
(* yields exactly one "unhandled" event that names the type and carries    *)
(* payload[7:], and changes neither the handshake state nor the request in *)
(* flight nor the queue.                                                   *)
C30_UnhandledEvent ==
    \A f \in InFrames(scenario) :
        (/\ f.type \notin Handled
         /\ ~(sam.handshake_complete /\ FrameLost(sam.ack_sequence, f.send_seq))) =>
            LET r == AfterFrame(f)
            IN  /\ r.events = <<[type |-> "unhandled", frame_type |-> f.type,
                                 data |-> DataContent(f)]>>
                /\ r.handshake_complete = sam.handshake_complete
                /\ r.in_flight_frame = sam.in_flight_frame
                /\ r.command_queue = sam.command_queue

(* a time request from the peer, a type of SamFrameType without handler,   *)
(* was reported as unhandled while a request was in flight                 *)
C30_Witness ==
    /\ sam.events = <<[type |-> "unhandled", frame_type |-> "TSQ", data |-> <<>>]>>
    /\ sam.handshake_complete
    /\ sam.in_flight_frame # None

(* the handler has found the status data missing at log line i *)
SdiSkippedAt(s, i) == s.log[i].line \in {"sdi_not_set", "sdi_not_bytes"}

(* C31: when SEND_SDI is taken from the head of the queue and the status   *)
(* data source is unset or does not return bytes, the step transmits no    *)
(* SDI frame and makes no SDI request in flight; the next queued command   *)
(* is taken from the queue in the same step, and where there is none the   *)
(* step ends with no request in flight, no command frame sent and the      *)
(* retransmission timer not started.                                       *)
C31_SdiSkipped ==
    [][\A i \in 1..Len(sam'.log) :
          SdiSkippedAt(sam', i) =>
            /\ i > 1 /\ sam'.log[i - 1] = [line |-> "processing", command |-> "SEND_SDI"]
            /\ (sam'.log[i].line = "sdi_not_set") <=> (sam.sdi_data_callback = "unset")
            /\ sam.sdi_data_callback # "bytes"
            /\ \A k \in 1..Len(sam'.sent) : sam'.sent[k].type # "SDI"
            /\ sam'.in_flight_frame # None => sam'.in_flight_frame.type # "SDI"
            /\ IF i < Len(sam'.log)
               THEN sam'.log[i + 1].line = "processing"
               ELSE /\ sam'.command_queue = <<>>
                    /\ sam'.in_flight_frame = None
                    /\ CommandFrames(sam') = <<>>
                    /\ "retransmission" \in sam'.timers => "retransmission" \in sam.timers
      ]_vars

(* SEND_SDI was skipped and the command behind it went out in the same step *)
C31_Witness ==
    \E i \in 1..(Len(sam.log) - 1) :
        /\ SdiSkippedAt(sam, i)
        /\ sam.log[i + 1].line = "processing"
        /\ sam.in_flight_frame # None
        /\ Len(CommandFrames(sam)) = 1

(* C32: the send sequence recorded in the request in flight is the         *)
(* engine's current send_sequence, in every state.                         *)
C32_InFlightSequence ==
    sam.in_flight_frame # None => sam.in_flight_frame.send_seq = sam.send_sequence

(* C33: no command waits while the engine is idle: between two events,     *)
(* where no request is in flight the command queue is empty.               *)
C33_NoIdleWait ==
    sam.in_flight_frame = None => sam.command_queue = <<>>

(* a request is in flight that the last step did not dispatch *)
Waiting ==
    /\ sam.in_flight_frame # None
    /\ \A i \in 1..Len(sam.log) : sam.log[i].line # "processing"

(* C34: whenever a request is in flight the retransmission timer is armed, *)
(* and with the timer firing fairly a request that waits in flight does    *)
(* not wait forever: the engine gets idle or pops the next command, which  *)
(* it does only after the request was cleared.                             *)
C34_InFlightIsTimed ==
    /\ [](sam.in_flight_frame # None => "retransmission" \in sam.timers)
    /\ Waiting ~> ~Waiting

(* the request in flight has been retransmitted the last time *)
C34_Witness ==
    /\ Waiting
    /\ sam.retry_count = MAX_RETRIES
    /\ "retransmission" \in sam.timers
    /\ Len(CommandFrames(sam)) = 1

(* C35: between two events the engine waits for a control-accept, with     *)
(* the wait timer armed, exactly when the request in flight is a           *)
(* control-request.                                                        *)
C35_AcaWaitMatchesRequest ==
    (sam.is_waiting_for_aca /\ "aca_timeout" \in sam.timers)
        <=> (sam.in_flight_frame # None /\ sam.in_flight_frame.type = "ACQ")

(* a control-request has been retransmitted and is still awaited *)
C35_Witness ==
    /\ sam.in_flight_frame # None /\ sam.in_flight_frame.type = "ACQ"
    /\ sam.is_waiting_for_aca /\ "aca_timeout" \in sam.timers
    /\ sam.retry_count > 0
    /\ sam.command_queue # <<>>

(* the state after a second frame g that follows frame f at once *)
AfterFrames(f, g) == ProcessFrame(Begin(AfterFrame(f)), g, TRUE)

(* C36: a NACK frame that reaches its handler while a request is in        *)
(* flight re-sends the request without counting a retry and without        *)
(* resetting the session, whatever the retry counter is, and so does a     *)
(* further NACK that follows it; the retry counter grows only in the       *)
(* retransmission timer's timeout, by one.                                 *)
C36_NackNotCounted ==
    /\ [](\A f \in InFrames(scenario) :
            (f.type = "NACK" /\ Dispatched(f) /\ sam.in_flight_frame # None) =>
                LET r == AfterFrame(f)
                    r2 == AfterFrames(f, f)
                IN  /\ r.retry_count = sam.retry_count
                    /\ r.sent = <<sam.in_flight_frame.frame_bytes>>
                    /\ r.handshake_complete = sam.handshake_complete
                    /\ r.send_sequence = sam.send_sequence
                    /\ r.in_flight_frame = sam.in_flight_frame
                    /\ r.events = <<>>
                    /\ r2.retry_count = sam.retry_count
                    /\ r2.sent = <<sam.in_flight_frame.frame_bytes>>
                    /\ r2.in_flight_frame = sam.in_flight_frame
                    /\ Begin(r2) = Begin(r))
    /\ [][sam'.retry_count > sam.retry_count =>
            /\ "retransmission" \in sam.timers
            /\ sam' = OnRetransmissionTimeout(StopTimer(Begin(sam), "retransmission"), FALSE)
            /\ sam'.retry_count = sam.retry_count + 1]_vars

(* a NACK has been answered with a re-send although the retry counter is   *)
(* at its limit                                                            *)
C36_Witness ==
    /\ sam.in_flight_frame # None
    /\ sam.retry_count = MAX_RETRIES
    /\ sam.sent = <<sam.in_flight_frame.frame_bytes>>
    /\ sam.consecutive_crc_errors = 0
    /\ "retransmission" \in sam.timers
    /\ \E f \in InFrames(scenario) :
          /\ f.type = "NACK" /\ Dispatched(f) /\ sam.ack_sequence = f.send_seq
          /\ AfterFrames(f, f).retry_count = MAX_RETRIES
          /\ AfterFrames(f, f).sent = <<sam.in_flight_frame.frame_bytes>>
          /\ AfterFrames(f, f).handshake_complete

(* C37: the gap test follows the peer's send sequence over its wrap from   *)
(* 255 to 1: with ack_sequence 254 or 255, a frame with send sequence 1 or *)
(* 2 that reaches the test resets the protocol layer exactly when it is    *)
(* not the successor of ack_sequence (255 after 254, 1 after 255).         *)
C37_WrapAwareGap ==
    \A f \in InFrames(scenario) :
        (/\ sam.handshake_complete
         /\ f.type \notin {"DC2", "DC3"}
         /\ sam.ack_sequence \in {254, 255}
         /\ f.send_seq \in {1, 2}) =>
            (IsReset(AfterFrame(f)) <=> f.send_seq # NextSendSequence(sam.ack_sequence))

(* the peer's frame 255 has been taken, frame 1 is lost and frame 2 arrives *)
C37_Witness ==
    /\ sam.handshake_complete
    /\ sam.ack_sequence = 255
    /\ \E f \in InFrames(scenario) :
          /\ f.send_seq = 2
          /\ ~IsReset(AfterFrame(f))
          /\ AfterFrame(f).ack_sequence = 2

(* the step clears the request in flight: the engine gets idle, or pops    *)
(* the next command, which it does only with no request in flight          *)
ClearingStep ==
    /\ sam.in_flight_frame # None
    /\ \/ sam'.in_flight_frame = None
       \/ \E i \in 1..Len(sam'.log) : sam'.log[i].line = "processing"

(* the step stays within one session: no reset and no handshake *)
SameSession ==
    /\ sam.handshake_complete /\ sam'.handshake_complete
    /\ sam.in_flight_frame.send_seq = sam.send_sequence
    /\ \A i \in 1..Len(sam'.sent) : sam'.sent[i].type # "DC3"

(* C39: within one session, every step that clears the request in flight   *)
(* advances send_sequence, and the command frame it dispatches next does   *)
(* not carry the send sequence of the request it cleared.                  *)
C39_FreshSequence ==
    [][(ClearingStep /\ SameSession) =>
          /\ sam'.send_sequence = NextSendSequence(sam.send_sequence)
          /\ sam'.in_flight_frame # None =>
                sam'.in_flight_frame.send_seq # sam.in_flight_frame.send_seq]_vars

(* the wait for the control-accept has timed out and the next command went *)
(* out with the send sequence of the control-request                       *)
C39_Witness ==
    /\ sam.handshake_complete
    /\ sam.events = <<[type |-> "aca", success |-> FALSE, message |-> "timeout"]>>
    /\ sam.in_flight_frame # None
    /\ sam.sent = <<sam.in_flight_frame.frame_bytes>>
    /\ sam.in_flight_frame.send_seq = sam.send_sequence
    /\ sam.retry_count = 0

-----------------------------------------------------------------------------
(* Properties of the hot-standby controller *)

HsLive == HsSpec /\ WF_vars(HsProgress)

(* the initial-role check of a controller has run *)
Settled(m) == hs[m].initial_role_timer = NoTime /\ hs[m].initial_role_check = "idle"

(* C5: a controller whose peer is recorded offline when its initial-role   *)
(* check looks claims primary, and one whose peer is recorded online       *)
(* becomes primary if its address is the smaller (A) and secondary if it   *)
(* is the larger (B); with the two controllers started together and every  *)
(* heartbeat delivered, once both checks have run A is primary and B is    *)
(* secondary.                                                              *)
C5_InitialRole ==
    [][/\ \A m \in Machines :
            /\ InitialRoleCheckRead(m) =>
                   hs'[m].initial_role_check =
                       IF hs[m].remote_status = "OFFLINE" THEN "become_master" ELSE "compare_ip"
            /\ InitialRoleCheckWrite(m) =>
                   hs'[m].local_role =
                       IF hs[m].initial_role_check = "become_master" \/ m = "A"
                       THEN "MASTER" ELSE "BACKUP"
       /\ (scenario = "steady" /\ \A m \in Machines : Settled(m)') =>
              hs'["A"].local_role = "MASTER" /\ hs'["B"].local_role = "BACKUP"
      ]_vars

(* C5 witness: heartbeats were exchanged, both checks have run, and B has  *)
(* just given way to A                                                     *)
C5_Witness ==
    /\ scenario = "steady"
    /\ \A m \in Machines : Settled(m) /\ hs[m].remote_status = "ONLINE"
    /\ hs["A"].local_role = "MASTER"
    /\ hs["B"].local_role = "BACKUP"
    /\ hs["B"].remote_role = "MASTER"

(* C6, as claimed: once more than the timeout threshold plus one monitor   *)
(* cycle has passed since the last heartbeat was received, the controller  *)
(* is primary and records its peer as offline with role secondary; and the *)
(* monitor never takes primary away.                                       *)
C6_Failover ==
    [][\A m \in Machines :
          /\ hs'[m].last_heartbeat_time > timeout_threshold + MonitorInterval =>
                 /\ hs'[m].local_role = "MASTER"
                 /\ hs'[m].remote_status = "OFFLINE"
                 /\ hs'[m].remote_role = "BACKUP"
          /\ (MonitorTaskWrite(m) /\ hs[m].local_role = "MASTER") =>
                 hs'[m].local_role = "MASTER"
      ]_vars

(* both controllers hold primary and each sees the other online *)
BothPrimary ==
    \A m \in Machines : hs[m].local_role = "MASTER" /\ hs[m].remote_status = "ONLINE"

(* exactly one primary, and it is the controller with the smaller address *)
Converged == hs["A"].local_role = "MASTER" /\ hs["B"].local_role = "BACKUP"

(* C7: if from some time on every heartbeat is delivered, a state in which *)
(* both controllers hold primary and see each other online is followed by  *)
(* a state in which A is primary and B secondary; a split-brain resolution *)
(* changes the local role only on the controller with the larger address,  *)
(* which becomes secondary and sends its peer a demotion notification.     *)
C7_SplitBrainConvergence ==
    /\ (<>[]link) => [](BothPrimary => <>Converged)
    /\ [][\A m \in Machines :
             (ResolveDualMaster(m) /\ hs'[m].local_role # hs[m].local_role) =>
                 /\ m = "B"
                 /\ hs'[m].local_role = "BACKUP"
                 /\ link => inbox'[Peer(m)] = Append(inbox[Peer(m)], DemotionNotification(m))
        ]_vars

(* C7 witness: B has given way after a split brain and its notification is *)
(* on the way to A                                                         *)
C7_Witness ==
    /\ Converged
    /\ hs["B"].remote_role = "MASTER"
    /\ hs["A"].remote_role = "MASTER"
    /\ inbox["A"] # <<>>
    /\ Head(inbox["A"]) = DemotionNotification("B")

(* C8, as claimed: the check that follows the heartbeat revealing a        *)
(* dual-primary condition only records the detection time and changes no   *)
(* role; a controller demotes itself through split-brain resolution only   *)
(* when the condition has held without interruption for the resolution     *)
(* delay.                                                                  *)
C8_SplitBrainDebounce ==
    [][\A m \in Machines :
          /\ (CheckDualMaster(m) /\ hs[m].episode = 0) =>
                 /\ hs'[m].dual_master_check_time = 0
                 /\ hs'[m].listen_thread = "recvfrom"
                 /\ hs'[m].local_role = hs[m].local_role
                 /\ hs'[m].remote_role = hs[m].remote_role
          /\ (ResolveDualMaster(m) /\ hs'[m].local_role # hs[m].local_role) =>
                 hs[m].episode >= dual_master_resolve_delay
      ]_vars

(* no handler of controller m is between a read and a write of the role state *)
AtRest(m) ==
    /\ hs[m].listen_thread = "recvfrom"
    /\ hs[m].monitor_task = "idle"
    /\ hs[m].initial_role_check = "idle"

(* C19: between handlers, dual_master_check_time is set only while the     *)
(* local role is MASTER, the peer's role is MASTER and the peer is ONLINE:  *)
(* every transition that ends the condition leaves it None.                *)
C19_CheckTimeOnlyWhileDualMaster ==
    \A m \in Machines :
        (AtRest(m) /\ hs[m].dual_master_check_time # NoTime) => DualMasterCondition(hs[m])

(* C19 witness: the monitor has marked the peer offline while a resolution *)
(* was pending, and the pending check time is still there                  *)
C19_Witness ==
    \E m \in Machines :
        /\ AtRest(m)
        /\ hs[m].dual_master_check_time # NoTime
        /\ hs[m].local_role = "MASTER"
        /\ hs[m].remote_status = "OFFLINE"

(* the role state __init__ and stop_service leave *)
RoleStateReset(h) ==
    /\ h.local_role = "BACKUP"
    /\ h.local_status = "OFFLINE"
    /\ h.remote_role = "BACKUP"
    /\ h.remote_status = "OFFLINE"
    /\ h.last_heartbeat_time = NoTime
    /\ h.dual_master_check_time = NoTime

(* C20: once stop_service has returned, the role state has its initial     *)
(* values and keeps them, and the stopped controller sends no datagram,    *)
(* whatever the heartbeat timer, the monitor timer, the initial-role timer *)
(* and the listener thread were doing when the service was stopped.        *)
C20_StoppedStaysReset ==
    /\ [](\A m \in Machines : ~hs[m].running => RoleStateReset(hs[m]))
    /\ [][\A m \in Machines :
             ~hs[m].running => Len(inbox'[Peer(m)]) <= Len(inbox[Peer(m)])]_hsVars

(* C20 witness: the service is stopped and a handler that was under way    *)
(* has made the stopped controller MASTER                                  *)
C20_Witness ==
    \E m \in Machines :
        /\ ~hs[m].running
        /\ hs[m].local_role = "MASTER"
        /\ AtRest(m)

(* the handlers of controller m that have read the role state and have not *)
(* yet finished writing it                                                 *)
UnderWay(m) ==
    {t \in {"listen_heartbeat", "monitor_task", "initial_role_check"} :
        \/ t = "listen_heartbeat" /\ hs[m].listen_thread # "recvfrom"
        \/ t = "monitor_task" /\ hs[m].monitor_task # "idle"
        \/ t = "initial_role_check" /\ hs[m].initial_role_check # "idle"}

(* C21: the listener thread, the monitor task and the initial-role check   *)
(* exclude each other: while one of them is between its read of the role   *)
(* state and its dependent write, no other has started.                    *)
C21_MutualExclusion ==
    \A m \in Machines : Cardinality(UnderWay(m)) <= 1

(* C21 witness: the monitor task has decided to mark the peer offline, the *)
(* initial-role check has read the peer's status, and neither has written  *)
(* yet                                                                     *)
C21_Witness ==
    \E m \in Machines :
        /\ hs[m].monitor_task = "mark_offline"
        /\ hs[m].initial_role_check # "idle"

(* C24: with every heartbeat delivered the two controllers never both hold *)
(* the primary role, whether they start together or one starts while the   *)
(* other is already primary and online.                                    *)
C24_NeverBothPrimary ==
    (\A m \in Machines : hs[m].running) => \E m \in Machines : hs[m].local_role # "MASTER"

(* B, started late, finds A primary and online and settles as secondary *)
C24_Witness ==
    /\ scenario = "late"
    /\ \A m \in Machines : hs[m].running /\ Settled(m) /\ hs[m].remote_status = "ONLINE"
    /\ hs["A"].local_role = "MASTER" /\ hs["B"].local_role = "BACKUP"
    /\ hs["B"].remote_role = "MASTER"

(* C25: the controller with the smaller address never demotes itself: its *)
(* local role leaves primary only when its service is stopped, and a       *)
(* split-brain resolution on it changes neither its local role nor the     *)
(* role it records for its peer and sends no datagram.                     *)
C25_SmallerNeverDemotes ==
    [][\A m \in Machines :
           IpLess(local_ip(m), remote_ip(m)) =>
               /\ (hs[m].local_role = "MASTER" /\ hs'[m].local_role # "MASTER") =>
                      (hs[m].running /\ ~hs'[m].running)
               /\ ResolveDualMaster(m) =>
                      /\ hs'[m].local_role = hs[m].local_role
                      /\ hs'[m].remote_role = hs[m].remote_role
                      /\ inbox' = inbox
      ]_vars

(* A has resolved a split brain that lasted the resolve delay, is still    *)
(* primary and still sees B primary                                         *)
C25_Witness ==
    /\ hs["A"].running /\ hs["A"].local_role = "MASTER"
    /\ DualMasterCondition(hs["A"])
    /\ hs["A"].listen_thread = "recvfrom"
    /\ hs["A"].dual_master_check_time = NoTime
    /\ hs["A"].episode >= dual_master_resolve_delay

(* C27: once its initial-role check has run, a running controller that     *)
(* records its peer as offline holds the primary role: no interleaving of  *)
(* the monitor task and the initial-role check leaves it secondary with    *)
(* the peer offline, a state no handler leaves again while the peer stays  *)
(* silent.                                                                 *)
C27_NoPrimarylessRest ==
    \A m \in Machines :
        (hs[m].running /\ Settled(m) /\ hs[m].monitor_task = "idle"
             /\ hs[m].remote_status = "OFFLINE") =>
            hs[m].local_role = "MASTER"

(* B settled as secondary, lost its peer and was promoted by the monitor *)
C27_Witness ==
    /\ hs["B"].running /\ Settled("B") /\ AtRest("B")
    /\ hs["B"].remote_status = "OFFLINE" /\ hs["B"].local_role = "MASTER"
    /\ hs["B"].last_heartbeat_time > timeout_threshold

(* C29: the listener, on a demotion notification from the peer, clears the *)
(* dual-primary time stamp and changes neither the local role nor the      *)
(* recorded role and status of the peer nor the time of the last           *)
(* heartbeat.                                                              *)
C29_DemotionNotification ==
    [][\A m \in Machines :
           (/\ inbox[m] # <<>>
            /\ Head(inbox[m]).data.type = "demotion_notification"
            /\ ListenHeartbeat(m)) =>
               /\ hs'[m].dual_master_check_time = NoTime
               /\ hs'[m].local_role = hs[m].local_role
               /\ hs'[m].remote_role = hs[m].remote_role
               /\ hs'[m].remote_status = hs[m].remote_status
               /\ hs'[m].last_heartbeat_time = hs[m].last_heartbeat_time
      ]_vars

(* A has seen two primaries for less than the resolve delay, and its       *)
(* pending time stamp is gone: B's notification has cleared it, and A      *)
(* still records B as primary                                              *)
C29_Witness ==
    /\ hs["A"].running /\ AtRest("A")
    /\ DualMasterCondition(hs["A"])
    /\ hs["A"].dual_master_check_time = NoTime
    /\ hs["A"].episode > 0 /\ hs["A"].episode < dual_master_resolve_delay

(* C38: in every state of a controller, under every interleaving of its    *)
(* listener, monitor and initial role check, a peer recorded as offline is *)
(* recorded with the secondary role.                                       *)
C38_OfflinePeerIsBackup ==
    \A m \in Machines : hs[m].remote_status = "OFFLINE" => hs[m].remote_role = "BACKUP"

====
